---- MODULE Spec2Model ----
(***************************************************************************)
(* Model of the ComfyUI dispatch scripts:                                  *)
(*   scripts/comfyui_server.py  - the multi-server load balancer           *)
(*   scripts/generate_api.py    - the image/video generation run           *)
(* One process runs one script; `script` says which.                       *)
(***************************************************************************)
EXTENDS Integers, Sequences, FiniteSets, TLC

VARIABLES
    script,     \* which script this process runs
    \* ---- comfyui_server.py
    lbpc,       \* position of the load balancer: idle, probing, returned, posted, raised
    caller,     \* the operation in progress: status, best, submit
    futures,    \* indices of SERVERS whose check_server future has not completed
    results,    \* check_all_servers: the list of statuses collected so far
    lastResp,   \* the response the most recently completed future got
    best,       \* what get_best_server returned
    posted,     \* the URL the workflow was last POSTed to by submit_prompt
    lbExc,      \* the exception that left the operation, "" if none
    ncalls,     \* operations started so far
    \* ---- generate_api.py
    mode,       \* argv: all, images, videos
    dry_run,    \* argv: --dry
    pc,         \* position of the run
    stage,      \* the stage whose jobs are being polled: images, videos
    servers,    \* main's snapshot: the list get_available_servers returned
    now,        \* wall clock, in units of POLL_INTERVAL
    probeTime,  \* the time main's snapshot was taken
    idx,        \* index of the loop in progress (into the job list or into submitted)
    submitted,  \* the list of (job, server, prompt_id), with the submission time
    pstart,     \* poll_completion's start
    manifest,   \* the items of result["outputs"] the download loops have yet to visit,
                \* each by its filename's extension, in the order of the visit
    uploaded,   \* the name upload_image returned for the job being built
    completed,  \* the stage's counter of downloaded files
    failed,     \* the stage's counter of failed jobs
    files,      \* the files in TEST_DIR
    jstate,     \* per job: how far the job has come
    report,     \* per job: the last status line printed for it
    npolls,     \* per job: GET /history requests sent
    net,        \* requests sent to workers: [job, server, req]
    firstRoute, \* time of the first routing decision that read the snapshot, -1 if none
    lastRoute,  \* time of the latest one
    genExc,     \* the exception that ended the run, "" if none
    answer,     \* the answer to the latest GET /history: the job it was sent for, its
                \* kind, and the number of output items the entry lists
    caught,     \* the exception the except clause just run bound to e: its type, and
                \* what of the worker's answer str(e) holds (e is unbound after the clause)
    \* ---- a call of a workflow builder of generate_api.py
    call,       \* the builder called and its arguments
    graph,      \* the graph the call returned, <<>> before it returns; in a run, the
                \* workflow of the POST /prompt just sent
    \* ---- model_sync.py
    spc,        \* position of cmd_sync: loop, listing, confirm, download, done, crashed
    hidx,       \* index into SSH_HOSTS of the host being synced
    cidx,       \* index into CATEGORY_DIRS of the category get_server_models queries
    didx,       \* index into to_download of the model being downloaded
    installed,  \* what get_server_models has collected: category -> set of names
    to_download, \* cmd_sync's list for the host
    confirm,    \* what the operator typed for the host, as a list of characters
    onhosts,    \* per host: the model files its filesystem holds
    downloads,  \* the downloads started: host, subdir, name
    \* ---- shared bookkeeping
    nprobes,    \* probes of the workers taken so far
    snapUsed    \* the probes (by number) that routing decisions have read

lbvars == <<lbpc, caller, futures, results, lastResp, best, posted, lbExc, ncalls>>
genvars == <<mode, dry_run, pc, stage, servers, now, probeTime, idx, submitted, pstart,
             manifest, uploaded, completed, failed, files, jstate, report, npolls, net,
             firstRoute, lastRoute, genExc, answer,
             caught>>
bvars == <<call, graph>>
syncvars == <<spc, hidx, cidx, didx, installed, to_download, confirm, onhosts, downloads>>
vars == <<script, lbvars, genvars, bvars, syncvars, nprobes, snapUsed>>

-----------------------------------------------------------------------------
(* Bounds *)

\* a worker reports at most this many queue entries, running and pending together
MaxQueue == 1
\* operations of the load balancer one process performs
MaxCalls == 2
\* output items one history entry lists at most, over all its nodes
MaxOutputs == 2
\* IMG_TIMEOUT and VID_TIMEOUT (300 s and 2400 s in the script), in units of
\* POLL_INTERVAL and cut down: image jobs get the short one, video jobs the long
IMG_TIMEOUT == 1
VID_TIMEOUT == 2
\* the step counts and the seeds a builder is called with
MaxSteps == 20
MaxSeed == 1

-----------------------------------------------------------------------------
(* comfyui_server.py *)

W8188 == "http://wright:8188"
W8199 == "http://wright:8199"
N8188 == "http://neumann:8188"
N8199 == "http://neumann:8199"

None == "None"

SERVERS == <<W8188, W8199, N8188, N8199>>

\* float("inf"): compares above every finite load
Infinity == 2 * MaxQueue + 1

\* What a GET /queue can come to. kind:
\*   refused, timeout : urlopen raises URLError / OSError / TimeoutError
\*   notjson          : json.loads raises JSONDecodeError
\*   nondict          : the body is JSON but not an object (data.get does not exist)
\*   dict             : a JSON object; running/pending are the lengths of
\*                      queue_running/queue_pending (an absent key reads as [])
QueueResponses ==
    [kind : {"refused", "timeout", "notjson", "nondict"}, running : {0}, pending : {0}]
    \cup {r \in [kind : {"dict"}, running : 0..MaxQueue, pending : 0..MaxQueue] :
              r.running + r.pending <= MaxQueue}

\* check_server with the pending queue left out of the load
check_server_load_running_only(url, resp) ==
    IF resp.kind = "dict"
    THEN [exc |-> "", url |-> url, online |-> TRUE, running |-> resp.running,
          pending |-> resp.pending, load |-> resp.running]
    ELSE IF resp.kind \in {"refused", "timeout", "notjson"}
    THEN [exc |-> "", url |-> url, online |-> FALSE, running |-> 0,
          pending |-> 0, load |-> Infinity]
    ELSE [exc |-> "AttributeError", url |-> url, online |-> FALSE, running |-> 0,
          pending |-> 0, load |-> Infinity]

\* check_server(url): the status dict, or the exception that escapes it (exc # "")
check_server(url, resp) ==
    IF resp.kind = "dict"
    THEN [exc |-> "", url |-> url, online |-> TRUE, running |-> resp.running,
          pending |-> resp.pending, load |-> resp.running + resp.pending]
    ELSE IF resp.kind \in {"refused", "timeout", "notjson"}
    THEN [exc |-> "", url |-> url, online |-> FALSE, running |-> 0,
          pending |-> 0, load |-> Infinity]
    ELSE [exc |-> "AttributeError", url |-> url, online |-> FALSE, running |-> 0,
          pending |-> 0, load |-> Infinity]

\* the sort key (not s["online"], s["load"]), compared as Python compares tuples
KeyLess(a, b) ==
    LET ka == IF a.online THEN 0 ELSE 1
        kb == IF b.online THEN 0 ELSE 1
    IN  ka < kb \/ (ka = kb /\ a.load < b.load)

\* x put behind every element that does not sort after it
InsertStable(x, s) ==
    LET n == Cardinality({i \in 1..Len(s) : ~KeyLess(x, s[i])})
    IN  SubSeq(s, 1, n) \o <<x>> \o SubSeq(s, n + 1, Len(s))

RECURSIVE SortStable(_)
\* list.sort(key=...): stable, so equal keys keep the order they had in the list
SortStable(s) ==
    IF s = <<>> THEN <<>>
    ELSE InsertStable(s[Len(s)], SortStable(SubSeq(s, 1, Len(s) - 1)))

\* get_best_server's loop over the sorted list: the first online status' URL
FirstOnline(sorted) ==
    LET on == {i \in 1..Len(sorted) : sorted[i].online}
    IN  IF on = {} THEN None
        ELSE sorted[CHOOSE i \in on : \A j \in on : i <= j].url

\* main("status"), main("best") or a call of submit_prompt: each starts with
\* check_all_servers, which submits one check_server per entry of SERVERS
LBCall(op) ==
    /\ script = "comfyui_server"
    /\ lbpc = "idle"
    /\ ncalls < MaxCalls
    /\ ncalls' = ncalls + 1
    /\ caller' = op
    /\ lbpc' = "probing"
    /\ futures' = DOMAIN SERVERS
    /\ results' = <<>>
    /\ nprobes' = nprobes + 1
    /\ best' = None
    /\ posted' = None
    /\ lbExc' = ""
    /\ UNCHANGED <<script, bvars, syncvars, lastResp, snapUsed, genvars>>

\* as_completed yields the future of SERVERS[i]; future.result() is appended, or
\* raises what check_server raised (the with block then waits for the rest and the
\* exception leaves check_all_servers). After the last future the list is sorted
\* and returned; get_best_server picks from it.
FutureDone(i, resp) ==
    /\ script = "comfyui_server"
    /\ lbpc = "probing"
    /\ i \in futures
    /\ LET r == check_server(SERVERS[i], resp)
           st == [url |-> r.url, online |-> r.online, running |-> r.running,
                  pending |-> r.pending, load |-> r.load]
       IN  /\ lastResp' = [url |-> SERVERS[i], kind |-> resp.kind,
                           running |-> resp.running, pending |-> resp.pending]
           /\ IF r.exc # ""
              THEN /\ lbpc' = "raised"
                   /\ lbExc' = r.exc
                   /\ futures' = {}
                   /\ results' = <<>>
                   /\ best' = None
              ELSE /\ futures' = futures \ {i}
                   /\ lbExc' = ""
                   /\ IF futures = {i}
                      THEN /\ results' = SortStable(Append(results, st))
                           /\ lbpc' = "returned"
                           /\ best' = IF caller = "status" THEN None
                                      ELSE FirstOnline(results')
                      ELSE /\ results' = Append(results, st)
                           /\ lbpc' = "probing"
                           /\ best' = None
    /\ UNCHANGED <<script, bvars, syncvars, caller, posted, ncalls, nprobes, snapUsed, genvars>>

\* submit_prompt after get_best_server: RuntimeError when it returned None, else the
\* workflow is POSTed to that URL (the POST may fail: urlopen raises)
LBSubmit(ok) ==
    /\ script = "comfyui_server"
    /\ lbpc = "returned"
    /\ caller = "submit"
    /\ snapUsed' = snapUsed \cup {nprobes}
    /\ IF best = None
       THEN /\ lbpc' = "raised"
            /\ lbExc' = "RuntimeError"
            /\ posted' = None
       ELSE /\ lbpc' = "posted"
            /\ posted' = best
            /\ lbExc' = IF ok THEN "" ELSE "URLError"
    /\ UNCHANGED <<script, bvars, syncvars, caller, futures, results, lastResp, best, ncalls, nprobes, genvars>>

\* the operation is over (print_status printed, main printed the URL or exited,
\* submit_prompt returned or raised): its locals are gone
LBReturn ==
    /\ script = "comfyui_server"
    /\ \/ lbpc = "returned" /\ caller \in {"status", "best"}
       \/ lbpc \in {"posted", "raised"}
    /\ lbpc' = "idle"
    /\ results' = <<>>
    /\ best' = None
    /\ posted' = None
    /\ lbExc' = ""
    /\ lastResp' = [url |-> None, kind |-> "none", running |-> 0, pending |-> 0]
    /\ UNCHANGED <<script, bvars, syncvars, caller, futures, ncalls, nprobes, snapUsed, genvars>>

-----------------------------------------------------------------------------
(* generate_api.py: configuration and job lists *)

WRIGHT == W8188
NEUMANN == N8188

\* model -> the server its jobs go to
MODEL_SERVER ==
    [flux_dev |-> NEUMANN, flux_schnell |-> NEUMANN, sd35 |-> WRIGHT,
     z_turbo |-> WRIGHT, wan_i2v |-> WRIGHT]

Range(s) == {s[i] : i \in DOMAIN s}

RECURSIVE Concat(_)
Concat(ss) == IF ss = <<>> THEN <<>> ELSE Head(ss) \o Concat(Tail(ss))

\* the keys of CINEMATIC, WEBTOON and VIDEO_SPECS, in the order of the dicts
Projects == <<"come_together", "dog", "exodus", "hague", "red_architect">>

\* The catalogs: (prompt, model) per entry, the prompt text left out
CINEMATIC ==
    [p \in Range(Projects) |-> <<"flux_dev", "flux_dev", "sd35", "sd35", "flux_schnell">>]

WEBTOON ==
    [p \in Range(Projects) |->
        <<"z_turbo", "z_turbo", "flux_dev", "flux_dev", "flux_schnell">>]

\* (motion_prompt, source_image) per entry, the prompt text left out
VIDEO_SPECS ==
    [come_together |-> <<"come_together-c01-flux_dev.png", "come_together-c02-flux_dev.png">>,
     dog |-> <<"dog-c01-flux_dev.png", "dog-c02-flux_dev.png">>,
     exodus |-> <<"exodus-c01-flux_dev.png", "exodus-c02-flux_dev.png">>,
     hague |-> <<"hague-c01-flux_dev.png", "hague-c02-flux_dev.png">>,
     red_architect |-> <<"red_architect-c01-flux_dev.png",
                         "red_architect-c02-flux_dev.png">>]

\* the format {i:02d}, for 0 <= i < 100
Pad2(i) ==
    LET digit == <<"0", "1", "2", "3", "4", "5", "6", "7", "8", "9">>
    IN  digit[(i \div 10) + 1] \o digit[(i % 10) + 1]

\* the name without the letter of the style family
JobNameNoFamily(project, letter, i, model) ==
    project \o "-" \o Pad2(i) \o "-" \o model

\* f"{project}-{letter}{i:02d}-{model}"
JobName(project, letter, i, model) ==
    project \o "-" \o letter \o Pad2(i) \o "-" \o model

\* job["filename"] + ext, the file's name in TEST_DIR
FileName(name, ext) == name \o ext

\* (width, height) per style family
SIZES == [cinematic |-> <<1280, 720>>, webtoon |-> <<768, 1024>>]

\* random.randint(0, 2**31) with the generator seeded in main: the value of the
\* k-th draw of a list, standing for itself
Seed(k) == k

\* the jobs of one project of CINEMATIC or WEBTOON: enumerate(prompts, 1), base
\* being the number of jobs appended before
ProjectImageJobs(catalog, letter, type, project, base) ==
    [i \in DOMAIN catalog[project] |->
        [filename |-> JobName(project, letter, i, catalog[project][i]),
         project |-> project, type |-> type, model |-> catalog[project][i],
         prompt |-> "prompt",
         neg |-> IF catalog[project][i] = "sd35" THEN "neg" ELSE "",
         width |-> SIZES[type][1], height |-> SIZES[type][2],
         seed |-> Seed(base + i)]]

build_image_jobs ==
    Concat([k \in DOMAIN Projects |->
               ProjectImageJobs(CINEMATIC, "c", "cinematic", Projects[k],
                                5 * (k - 1))])
    \o Concat([k \in DOMAIN Projects |->
               ProjectImageJobs(WEBTOON, "w", "webtoon", Projects[k],
                                5 * Len(Projects) + 5 * (k - 1))])

build_video_jobs ==
    Concat([k \in DOMAIN Projects |->
               [i \in DOMAIN VIDEO_SPECS[Projects[k]] |->
                   [filename |-> JobName(Projects[k], "v", i, "wan_i2v"),
                    project |-> Projects[k], type |-> "video", model |-> "wan_i2v",
                    motion_prompt |-> "motion",
                    source_image |-> VIDEO_SPECS[Projects[k]][i],
                    seed |-> Seed(2 * (k - 1) + i)]]])

\* The runs modelled work on a part of the two lists: these jobs, in the lists'
\* order. The image jobs go to different servers, the video jobs take the files
\* of two image jobs as their sources.
RunJobs == {"dog-c01-flux_dev", "dog-c03-sd35", "dog-v01-wan_i2v", "dog-v02-wan_i2v"}

InRun(job) == job.filename \in RunJobs

\* jobs = build_image_jobs() in generate_images, cut down
ImageJobs == SelectSeq(build_image_jobs, InRun)

\* jobs = build_video_jobs() in generate_videos, cut down
VideoJobs == SelectSeq(build_video_jobs, InRun)

ImageNames == {j.filename : j \in Range(ImageJobs)}
VideoNames == {j.filename : j \in Range(VideoJobs)}
JobNames == ImageNames \cup VideoNames
SourceImages == {j.source_image : j \in Range(VideoJobs)}

\* job["model"] of the job of that name
JobModel(name) ==
    IF name \in VideoNames
    THEN (CHOOSE j \in Range(VideoJobs) : j.filename = name).model
    ELSE (CHOOSE j \in Range(ImageJobs) : j.filename = name).model

\* get_available_servers: WRIGHT then NEUMANN, each kept when its GET /queue
\* answered with JSON; up is the set of servers that did
get_available_servers(up) ==
    SelectSeq(<<WRIGHT, NEUMANN>>, LAMBDA u : u \in up)

\* the lookup falling back to the first online server
ImageTargetFallback(model, srv) ==
    IF model \in DOMAIN MODEL_SERVER /\ MODEL_SERVER[model] \in Range(srv)
    THEN MODEL_SERVER[model]
    ELSE srv[1]

\* MODEL_SERVER.get(job["model"], servers[0]) in generate_images (srv is not empty)
ImageTarget(model, srv) ==
    IF model \in DOMAIN MODEL_SERVER THEN MODEL_SERVER[model] ELSE srv[1]

\* MODEL_SERVER.get(job["model"], WRIGHT) in generate_videos
VideoTarget(model) ==
    IF model \in DOMAIN MODEL_SERVER THEN MODEL_SERVER[model] ELSE WRIGHT

\* the membership test left out
ServerOnlineAlways(server, srv) == TRUE

\* the test `server not in servers`, negated
ServerOnline(server, srv) == server \in Range(srv)

StageJobs(st) == IF st = "images" THEN ImageJobs ELSE VideoJobs

\* timeout=IMG_TIMEOUT, timeout=VID_TIMEOUT in the two poll loops
StageTimeout(st) == IF st = "images" THEN IMG_TIMEOUT ELSE VID_TIMEOUT

\* os.path.splitext(item["filename"])[1] or ".png" / ".webp"
OutputExt(st, ext) ==
    IF ext # "" THEN ext ELSE IF st = "images" THEN ".png" ELSE ".webp"

\* the output items a history entry can list, each by its filename's extension
Extensions == {".png", ""}

RECURSIVE SeqsUpTo(_, _)
SeqsUpTo(S, n) ==
    IF n = 0 THEN {<<>>}
    ELSE LET shorter == SeqsUpTo(S, n - 1)
         IN  shorter \cup {Append(s, x) : s \in shorter, x \in S}

\* for key in ("images", "videos", "gifs")
OutputKeys == <<"images", "videos", "gifs">>

\* one entry of result["outputs"]: what a producing node lists under each
\* category, each item given by its filename's extension
OutputNodes ==
    {n \in [images : SeqsUpTo(Extensions, MaxOutputs),
            videos : SeqsUpTo(Extensions, MaxOutputs),
            gifs : SeqsUpTo(Extensions, MaxOutputs)] :
        Len(n.images) + Len(n.videos) + Len(n.gifs) \in 1..MaxOutputs}

\* the number of items a node lists
NodeSize(n) == Len(n.images) + Len(n.videos) + Len(n.gifs)

RECURSIVE Listed(_)
\* the number of items result["outputs"] lists
Listed(outs) ==
    IF outs = <<>> THEN 0 ELSE NodeSize(Head(outs)) + Listed(Tail(outs))

RECURSIVE OutputsOfSize(_)
\* the lists of nodes that list t items between them
OutputsOfSize(t) ==
    IF t = 0 THEN {<<>>}
    ELSE UNION {{<<n>> \o rest : n \in {x \in OutputNodes : NodeSize(x) = k},
                                 rest \in OutputsOfSize(t - k)} : k \in 1..t}

\* result["outputs"]: the producing nodes in the order of the JSON object
Manifests == UNION {OutputsOfSize(t) : t \in 0..MaxOutputs}

\* the items in the order the three nested loops visit them: node by node, in
\* each node key by key of OutputKeys, under each key the list in its order
OutputItems(outs) ==
    Concat([i \in DOMAIN outs |->
        Concat([k \in DOMAIN OutputKeys |->
            [j \in DOMAIN outs[i][OutputKeys[k]] |->
                [node |-> i, key |-> OutputKeys[k],
                 ext |-> outs[i][OutputKeys[k]][j]]]])])

\* item["filename"]'s extension, for each item of a list
Exts(items) == [i \in DOMAIN items |-> items[i].ext]

Terminal == {"Completed", "Failed", "TimedOut"}

\* an exception as an except clause sees it: its class, and the field of the
\* worker's answer whose value str(e) holds ("" when it holds none)
Exception(type, detail) == [type |-> type, detail |-> detail]

NoException == Exception("", "")

\* poll_completion has sent no request yet
NoAnswer == [job |-> None, resp |-> "none", listed |-> 0]

-----------------------------------------------------------------------------
(* generate_api.py: workflow builders *)

\* an input of a node: a binding [producer_id, slot], or a literal value
Bind(node, slot) == [kind |-> "bind", node |-> node, slot |-> slot]
Lit(value) == [kind |-> "lit", value |-> value]

NEUMANN_MODELS ==
    [flux_dev_unet |-> "flux1-dev-fp8-e4m3fn.safetensors",
     flux_schnell_unet |-> "flux1-schnell-fp8-e4m3fn.safetensors",
     t5xxl |-> "t5xxl_fp8_e4m3fn.safetensors"]

workflow_flux_dev(prompt, width, height, seed) ==
    LET models == NEUMANN_MODELS
    IN  ("1" :> [class_type |-> "UNETLoader", inputs |->
                    [unet_name |-> Lit(models.flux_dev_unet),
                     weight_dtype |-> Lit("fp8_e4m3fn")]])
     @@ ("2" :> [class_type |-> "DualCLIPLoader", inputs |->
                    [clip_name1 |-> Lit("clip_l.safetensors"),
                     clip_name2 |-> Lit(models.t5xxl), type |-> Lit("flux")]])
     @@ ("3" :> [class_type |-> "CLIPTextEncode", inputs |->
                    [text |-> Lit(prompt), clip |-> Bind("2", 0)]])
     @@ ("4" :> [class_type |-> "CLIPTextEncode", inputs |->
                    [text |-> Lit(""), clip |-> Bind("2", 0)]])
     @@ ("5" :> [class_type |-> "FluxGuidance", inputs |->
                    [guidance |-> Lit("3.5"), conditioning |-> Bind("3", 0)]])
     @@ ("6" :> [class_type |-> "EmptySD3LatentImage", inputs |->
                    [width |-> Lit(width), height |-> Lit(height), batch_size |-> Lit(1)]])
     @@ ("7" :> [class_type |-> "KSampler", inputs |->
                    [seed |-> Lit(seed), steps |-> Lit(20), cfg |-> Lit("1.0"),
                     sampler_name |-> Lit("euler"), scheduler |-> Lit("simple"),
                     denoise |-> Lit("1.0"),
                     model |-> Bind("1", 0), positive |-> Bind("5", 0),
                     negative |-> Bind("4", 0), latent_image |-> Bind("6", 0)]])
     @@ ("8" :> [class_type |-> "VAELoader", inputs |->
                    [vae_name |-> Lit("ae.safetensors")]])
     @@ ("9" :> [class_type |-> "VAEDecode", inputs |->
                    [samples |-> Bind("7", 0), vae |-> Bind("8", 0)]])
     @@ ("10" :> [class_type |-> "SaveImage", inputs |->
                    [filename_prefix |-> Lit("gentest"), images |-> Bind("9", 0)]])

\* the sampler's positive input bound as in workflow_flux_dev, to node "5"
workflow_flux_schnell_guided(prompt, width, height, seed) ==
    LET models == NEUMANN_MODELS
    IN  ("1" :> [class_type |-> "UNETLoader", inputs |->
                    [unet_name |-> Lit(models.flux_schnell_unet),
                     weight_dtype |-> Lit("fp8_e4m3fn")]])
     @@ ("2" :> [class_type |-> "DualCLIPLoader", inputs |->
                    [clip_name1 |-> Lit("clip_l.safetensors"),
                     clip_name2 |-> Lit(models.t5xxl), type |-> Lit("flux")]])
     @@ ("3" :> [class_type |-> "CLIPTextEncode", inputs |->
                    [text |-> Lit(prompt), clip |-> Bind("2", 0)]])
     @@ ("4" :> [class_type |-> "CLIPTextEncode", inputs |->
                    [text |-> Lit(""), clip |-> Bind("2", 0)]])
     @@ ("5" :> [class_type |-> "EmptySD3LatentImage", inputs |->
                    [width |-> Lit(width), height |-> Lit(height), batch_size |-> Lit(1)]])
     @@ ("6" :> [class_type |-> "KSampler", inputs |->
                    [seed |-> Lit(seed), steps |-> Lit(4), cfg |-> Lit("1.0"),
                     sampler_name |-> Lit("euler"), scheduler |-> Lit("simple"),
                     denoise |-> Lit("1.0"),
                     model |-> Bind("1", 0), positive |-> Bind("5", 0),
                     negative |-> Bind("4", 0), latent_image |-> Bind("5", 0)]])
     @@ ("7" :> [class_type |-> "VAELoader", inputs |->
                    [vae_name |-> Lit("ae.safetensors")]])
     @@ ("8" :> [class_type |-> "VAEDecode", inputs |->
                    [samples |-> Bind("6", 0), vae |-> Bind("7", 0)]])
     @@ ("9" :> [class_type |-> "SaveImage", inputs |->
                    [filename_prefix |-> Lit("gentest"), images |-> Bind("8", 0)]])

workflow_flux_schnell(prompt, width, height, seed) ==
    LET models == NEUMANN_MODELS
    IN  ("1" :> [class_type |-> "UNETLoader", inputs |->
                    [unet_name |-> Lit(models.flux_schnell_unet),
                     weight_dtype |-> Lit("fp8_e4m3fn")]])
     @@ ("2" :> [class_type |-> "DualCLIPLoader", inputs |->
                    [clip_name1 |-> Lit("clip_l.safetensors"),
                     clip_name2 |-> Lit(models.t5xxl), type |-> Lit("flux")]])
     @@ ("3" :> [class_type |-> "CLIPTextEncode", inputs |->
                    [text |-> Lit(prompt), clip |-> Bind("2", 0)]])
     @@ ("4" :> [class_type |-> "CLIPTextEncode", inputs |->
                    [text |-> Lit(""), clip |-> Bind("2", 0)]])
     @@ ("5" :> [class_type |-> "EmptySD3LatentImage", inputs |->
                    [width |-> Lit(width), height |-> Lit(height), batch_size |-> Lit(1)]])
     @@ ("6" :> [class_type |-> "KSampler", inputs |->
                    [seed |-> Lit(seed), steps |-> Lit(4), cfg |-> Lit("1.0"),
                     sampler_name |-> Lit("euler"), scheduler |-> Lit("simple"),
                     denoise |-> Lit("1.0"),
                     model |-> Bind("1", 0), positive |-> Bind("3", 0),
                     negative |-> Bind("4", 0), latent_image |-> Bind("5", 0)]])
     @@ ("7" :> [class_type |-> "VAELoader", inputs |->
                    [vae_name |-> Lit("ae.safetensors")]])
     @@ ("8" :> [class_type |-> "VAEDecode", inputs |->
                    [samples |-> Bind("6", 0), vae |-> Bind("7", 0)]])
     @@ ("9" :> [class_type |-> "SaveImage", inputs |->
                    [filename_prefix |-> Lit("gentest"), images |-> Bind("8", 0)]])

workflow_sd35(prompt, neg_prompt, width, height, seed) ==
        ("1" :> [class_type |-> "CheckpointLoaderSimple", inputs |->
                    [ckpt_name |-> Lit("sd3.5_large_fp8_scaled.safetensors")]])
     @@ ("2" :> [class_type |-> "CLIPTextEncode", inputs |->
                    [text |-> Lit(prompt), clip |-> Bind("1", 1)]])
     @@ ("3" :> [class_type |-> "CLIPTextEncode", inputs |->
                    [text |-> Lit(neg_prompt), clip |-> Bind("1", 1)]])
     @@ ("4" :> [class_type |-> "EmptySD3LatentImage", inputs |->
                    [width |-> Lit(width), height |-> Lit(height), batch_size |-> Lit(1)]])
     @@ ("5" :> [class_type |-> "KSampler", inputs |->
                    [seed |-> Lit(seed), steps |-> Lit(28), cfg |-> Lit("4.5"),
                     sampler_name |-> Lit("euler"), scheduler |-> Lit("normal"),
                     denoise |-> Lit("1.0"),
                     model |-> Bind("1", 0), positive |-> Bind("2", 0),
                     negative |-> Bind("3", 0), latent_image |-> Bind("4", 0)]])
     @@ ("6" :> [class_type |-> "VAEDecode", inputs |->
                    [samples |-> Bind("5", 0), vae |-> Bind("1", 2)]])
     @@ ("7" :> [class_type |-> "SaveImage", inputs |->
                    [filename_prefix |-> Lit("gentest"), images |-> Bind("6", 0)]])

workflow_z_turbo(prompt, width, height, seed) ==
        ("1" :> [class_type |-> "UNETLoader", inputs |->
                    [unet_name |-> Lit("z_image_turbo_bf16.safetensors"),
                     weight_dtype |-> Lit("default")]])
     @@ ("2" :> [class_type |-> "CLIPLoader", inputs |->
                    [clip_name |-> Lit("qwen_3_4b.safetensors"), type |-> Lit("lumina2")]])
     @@ ("3" :> [class_type |-> "CLIPTextEncode", inputs |->
                    [text |-> Lit(prompt), clip |-> Bind("2", 0)]])
     @@ ("4" :> [class_type |-> "CLIPTextEncode", inputs |->
                    [text |-> Lit(""), clip |-> Bind("2", 0)]])
     @@ ("5" :> [class_type |-> "ModelSamplingAuraFlow", inputs |->
                    [shift |-> Lit("3.0"), model |-> Bind("1", 0)]])
     @@ ("6" :> [class_type |-> "EmptySD3LatentImage", inputs |->
                    [width |-> Lit(width), height |-> Lit(height), batch_size |-> Lit(1)]])
     @@ ("7" :> [class_type |-> "KSampler", inputs |->
                    [seed |-> Lit(seed), steps |-> Lit(8), cfg |-> Lit("1.0"),
                     sampler_name |-> Lit("res_multistep"), scheduler |-> Lit("simple"),
                     denoise |-> Lit("1.0"),
                     model |-> Bind("5", 0), positive |-> Bind("3", 0),
                     negative |-> Bind("4", 0), latent_image |-> Bind("6", 0)]])
     @@ ("8" :> [class_type |-> "VAELoader", inputs |->
                    [vae_name |-> Lit("ae.safetensors")]])
     @@ ("9" :> [class_type |-> "VAEDecode", inputs |->
                    [samples |-> Bind("7", 0), vae |-> Bind("8", 0)]])
     @@ ("10" :> [class_type |-> "SaveImage", inputs |->
                    [filename_prefix |-> Lit("gentest"), images |-> Bind("9", 0)]])

\* the boundary rounded up
half_steps_ceil(steps) == (steps + 1) \div 2

\* half_steps = steps // 2
half_steps(steps) == steps \div 2

\* the decode node reading the first pass
DecodeSourceFirstPass == Bind("11", 0)

\* "samples" of node "13"
DecodeSource == Bind("12", 0)

workflow_wan_i2v(motion_prompt, image_filename, seed, steps, length) ==
        ("1" :> [class_type |-> "UNETLoader", inputs |->
                    [unet_name |-> Lit("wan2.2_i2v_high_noise_14B_fp16.safetensors"),
                     weight_dtype |-> Lit("default")]])
     @@ ("2" :> [class_type |-> "UNETLoader", inputs |->
                    [unet_name |-> Lit("wan2.2_i2v_low_noise_14B_fp16.safetensors"),
                     weight_dtype |-> Lit("default")]])
     @@ ("3" :> [class_type |-> "ModelSamplingSD3", inputs |->
                    [model |-> Bind("1", 0), shift |-> Lit("8.0")]])
     @@ ("4" :> [class_type |-> "ModelSamplingSD3", inputs |->
                    [model |-> Bind("2", 0), shift |-> Lit("8.0")]])
     @@ ("5" :> [class_type |-> "CLIPLoader", inputs |->
                    [clip_name |-> Lit("umt5_xxl_fp8_e4m3fn_scaled.safetensors"),
                     type |-> Lit("wan")]])
     @@ ("6" :> [class_type |-> "VAELoader", inputs |->
                    [vae_name |-> Lit("wan_2.1_vae.safetensors")]])
     @@ ("7" :> [class_type |-> "CLIPTextEncode", inputs |->
                    [text |-> Lit(motion_prompt), clip |-> Bind("5", 0)]])
     @@ ("8" :> [class_type |-> "CLIPTextEncode", inputs |->
                    [text |-> Lit("neg_prompt"), clip |-> Bind("5", 0)]])
     @@ ("9" :> [class_type |-> "LoadImage", inputs |-> [image |-> Lit(image_filename)]])
     @@ ("10" :> [class_type |-> "WanImageToVideo", inputs |->
                    [positive |-> Bind("7", 0), negative |-> Bind("8", 0),
                     vae |-> Bind("6", 0),
                     width |-> Lit(832), height |-> Lit(480), length |-> Lit(length),
                     batch_size |-> Lit(1), start_image |-> Bind("9", 0)]])
     @@ ("11" :> [class_type |-> "KSamplerAdvanced", inputs |->
                    [model |-> Bind("3", 0),
                     positive |-> Bind("10", 0), negative |-> Bind("10", 1),
                     latent_image |-> Bind("10", 2),
                     noise_seed |-> Lit(seed), steps |-> Lit(steps), cfg |-> Lit("3.5"),
                     sampler_name |-> Lit("euler"), scheduler |-> Lit("simple"),
                     add_noise |-> Lit("enable"), start_at_step |-> Lit(0),
                     end_at_step |-> Lit(half_steps(steps)),
                     return_with_leftover_noise |-> Lit("enable")]])
     @@ ("12" :> [class_type |-> "KSamplerAdvanced", inputs |->
                    [model |-> Bind("4", 0),
                     positive |-> Bind("10", 0), negative |-> Bind("10", 1),
                     latent_image |-> Bind("11", 0),
                     noise_seed |-> Lit(seed), steps |-> Lit(steps), cfg |-> Lit("3.5"),
                     sampler_name |-> Lit("euler"), scheduler |-> Lit("simple"),
                     add_noise |-> Lit("disable"),
                     start_at_step |-> Lit(half_steps(steps)),
                     end_at_step |-> Lit(10000),
                     return_with_leftover_noise |-> Lit("disable")]])
     @@ ("13" :> [class_type |-> "VAEDecode", inputs |->
                    [samples |-> DecodeSource, vae |-> Bind("6", 0)]])
     @@ ("14" :> [class_type |-> "SaveAnimatedWEBP", inputs |->
                    [filename_prefix |-> Lit("gentest_vid"), images |-> Bind("13", 0),
                     fps |-> Lit("16.0"), lossless |-> Lit(TRUE), quality |-> Lit(100),
                     method |-> Lit("default")]])

\* BUILDERS[model](p, n, w, h, s)
BUILDERS(model, p, n, w, h, s) ==
    CASE model = "flux_dev" -> workflow_flux_dev(p, w, h, s)
      [] model = "flux_schnell" -> workflow_flux_schnell(p, w, h, s)
      [] model = "sd35" -> workflow_sd35(p, n, w, h, s)
      [] model = "z_turbo" -> workflow_z_turbo(p, w, h, s)

\* the defaults steps=20, length=49 of workflow_wan_i2v
DefaultSteps == 20
DefaultLength == 49

\* no graph
NoGraph == <<>>

\* a call of a builder: the builder and the arguments; builder "" is no call
NoCall ==
    [builder |-> "", prompt |-> "", neg |-> "", width |-> 0, height |-> 0, seed |-> 0,
     image |-> "", steps |-> 0, length |-> 0]

\* what the call returns
CallBuilder(c) ==
    IF c.builder = "wan_i2v"
    THEN workflow_wan_i2v(c.prompt, c.image, c.seed, c.steps, c.length)
    ELSE BUILDERS(c.builder, c.prompt, c.neg, c.width, c.height, c.seed)

\* the image a LoadImage node of the graph names, "" when it has no such node
ImageLiteral(g) ==
    LET loads == {n \in DOMAIN g : g[n].class_type = "LoadImage"}
    IN  IF loads = {} THEN "" ELSE g[CHOOSE n \in loads : TRUE].inputs.image.value

-----------------------------------------------------------------------------
(* generate_api.py: the run *)

\* a routing decision reads main's snapshot at the present time
RoutingDecision ==
    /\ snapUsed' = snapUsed \cup {nprobes}
    /\ firstRoute' = IF firstRoute = -1 THEN now ELSE firstRoute
    /\ lastRoute' = now

\* the submit loop run again for a job whose submission was rejected
NextSubmitRetry(st, routepc) ==
    IF jstate'[StageJobs(st)[idx].filename] = "SubmissionRejected"
    THEN /\ idx' = idx
         /\ pc' = routepc
         /\ UNCHANGED <<completed, failed>>
    ELSE IF idx < Len(StageJobs(st))
    THEN /\ idx' = idx + 1
         /\ pc' = routepc
         /\ UNCHANGED <<completed, failed>>
    ELSE /\ idx' = 1
         /\ pc' = "poll"
         /\ completed' = 0
         /\ failed' = 0

\* generate_images returning after its submit loop, its jobs not awaited
NextSubmitNoWait(st, routepc) ==
    IF idx < Len(StageJobs(st))
    THEN /\ idx' = idx + 1
         /\ pc' = routepc
         /\ UNCHANGED <<completed, failed>>
    ELSE /\ idx' = 1
         /\ pc' = IF st = "images" /\ mode = "all" THEN "videos" ELSE "poll"
         /\ completed' = 0
         /\ failed' = 0

\* the next iteration of a submit loop, or on to the poll loop after the last job
NextSubmit(st, routepc) ==
    IF idx < Len(StageJobs(st))
    THEN /\ idx' = idx + 1
         /\ pc' = routepc
         /\ UNCHANGED <<completed, failed>>
    ELSE /\ idx' = 1
         /\ pc' = "poll"
         /\ completed' = 0
         /\ failed' = 0

\* main: argv, get_available_servers, exit when nothing is online (unless --dry)
Main(up) ==
    /\ script = "generate_api"
    /\ pc = "main"
    /\ servers' = get_available_servers(up)
    /\ nprobes' = nprobes + 1
    /\ probeTime' = now
    /\ IF servers' = <<>> /\ ~dry_run
       THEN pc' = "exit" /\ genExc' = "SystemExit"
       ELSE /\ pc' = IF mode \in {"all", "images"} THEN "images" ELSE "videos"
            /\ genExc' = ""
    /\ UNCHANGED <<script, bvars, syncvars, lbvars, mode, dry_run, stage, now, idx, submitted, pstart,
                   manifest, uploaded, completed, failed, files, jstate, report, npolls,
                   net, firstRoute, lastRoute, snapUsed, answer>>
    /\ caught' = NoException

\* where main goes after generate_images
AfterImages == IF mode = "all" THEN "videos" ELSE "done"

\* the test of dry_run left out: the stage is run
ListOnlyNever(flag) == FALSE

\* `if dry_run:` at the head of a stage function
ListOnly(flag) == flag

\* the status lines after the loop of a dry run has printed the jobs of that name
Listing(names) == [n \in JobNames |-> IF n \in names THEN "LISTED" ELSE report[n]]

\* generate_images up to its submit loop; with dry_run the jobs are listed, and
\* servers[0] is evaluated for each (IndexError on an empty list)
GenerateImages ==
    /\ script = "generate_api"
    /\ pc = "images"
    /\ IF ListOnly(dry_run)
       THEN /\ IF servers = <<>> /\ Len(ImageJobs) > 0
               THEN pc' = "crashed" /\ genExc' = "IndexError" /\ UNCHANGED report
               ELSE pc' = AfterImages /\ genExc' = "" /\ report' = Listing(ImageNames)
            /\ UNCHANGED <<stage, idx, submitted>>
       ELSE /\ pc' = "img_route"
            /\ stage' = "images"
            /\ idx' = 1
            /\ submitted' = <<>>
            /\ genExc' = ""
            /\ UNCHANGED report
    /\ UNCHANGED <<script, bvars, syncvars, lbvars, mode, dry_run, servers, now, probeTime, pstart,
                   manifest, uploaded, completed, failed, files, jstate, npolls,
                   net, firstRoute, lastRoute, nprobes, snapUsed, answer>>
    /\ caught' = NoException

\* one iteration of the image submit loop up to the built workflow: the server is
\* looked up, the job skipped when it is not in servers, else the builder called
ImgRoute ==
    /\ script = "generate_api"
    /\ pc = "img_route"
    /\ LET job == ImageJobs[idx]
           server == ImageTarget(job.model, servers)
       IN  /\ RoutingDecision
           /\ IF ~ServerOnline(server, servers)
              THEN /\ jstate' = [jstate EXCEPT ![job.filename] = "Skipped"]
                   /\ report' = [report EXCEPT ![job.filename] = "SKIP"]
                   /\ NextSubmit("images", "img_route")
              ELSE /\ jstate' = [jstate EXCEPT ![job.filename] = "Built"]
                   /\ pc' = "img_post"
                   /\ UNCHANGED <<report, idx, completed, failed>>
    /\ UNCHANGED <<script, call, syncvars, lbvars, mode, dry_run, stage, servers, now, probeTime,
                   submitted, pstart, manifest, uploaded, files, npolls, net, genExc,
                   nprobes, answer>>
    /\ caught' = NoException
    /\ graph' = NoGraph

\* the append moved out of the try block: done for a rejected job too
AppendSubmittedAlso(sub, entry, ok) == Append(sub, entry)

\* submitted.append((job, server, prompt_id)) follows submit_prompt in the try block
AppendSubmitted(sub, entry, ok) == IF ok THEN Append(sub, entry) ELSE sub

\* what submit_prompt raises:
\*   error     : RuntimeError(f"ComfyUI error: {data['error']}")
\*   httperror : urlopen raises HTTPError, str(e) is "HTTP Error <code>: <reason>";
\*               the body of the answer is not read
\*   urlerror  : urlopen raises URLError, there is no answer
\*   nokey     : data["prompt_id"] raises KeyError('prompt_id')
SubmitError(outcome) ==
    CASE outcome = "error" -> Exception("RuntimeError", "error")
      [] outcome = "httperror" -> Exception("HTTPError", "")
      [] outcome = "urlerror" -> Exception("URLError", "")
      [] outcome = "nokey" -> Exception("KeyError", "")

\* submit_prompt(server, workflow) and what the submit loop does with its result.
\* outcome: ok (a prompt_id came back), error ("error" in the response), httperror
\* (the worker answered with an HTTP error status), urlerror (urlopen raised for
\* want of an answer), nokey (no "prompt_id" in the response)
Post(st, job, server, workflow, outcome, routepc) ==
    /\ caught' = IF outcome = "ok" THEN NoException ELSE SubmitError(outcome)
    /\ graph' = workflow
    /\ net' = net \cup {[job |-> job.filename, server |-> server, req |-> "prompt"]}
    /\ submitted' = AppendSubmitted(submitted,
                        [job |-> job.filename, server |-> server, at |-> now],
                        outcome = "ok")
    /\ jstate' = [jstate EXCEPT ![job.filename] =
                     IF outcome = "ok" THEN "Submitted" ELSE "SubmissionRejected"]
    /\ report' = [report EXCEPT ![job.filename] =
                     IF outcome = "ok" THEN "Submitted" ELSE "FAILED"]
    /\ NextSubmit(st, routepc)

SubmitOutcomes == {"ok", "error", "httperror", "urlerror", "nokey"}

ImgPost(outcome) ==
    /\ script = "generate_api"
    /\ pc = "img_post"
    /\ LET job == ImageJobs[idx]
           workflow == BUILDERS(job.model, job.prompt, job.neg, job.width, job.height,
                                job.seed)
       IN  Post("images", job, ImageTarget(job.model, servers), workflow, outcome,
                "img_route")
    /\ UNCHANGED <<script, call, syncvars, lbvars, mode, dry_run, stage, servers, now, probeTime,
                   pstart, manifest, uploaded, files, npolls, firstRoute, lastRoute,
                   genExc, nprobes, snapUsed, answer>>

\* the positions in the job list of the video jobs whose source image is not in fs
MissingSources(fs) == {i \in DOMAIN VideoJobs : VideoJobs[i].source_image \notin fs}

\* generate_videos up to its submit loop: the listing with dry_run, else the check
\* that every source image exists (at the first missing one the error is printed
\* and the function returns)
GenerateVideos ==
    /\ script = "generate_api"
    /\ pc = "videos"
    /\ IF ListOnly(dry_run)
       THEN /\ pc' = "done"
            /\ report' = Listing(VideoNames)
            /\ UNCHANGED <<stage, idx, submitted>>
       ELSE IF MissingSources(files) # {}
       THEN /\ pc' = "done"
            /\ LET first == CHOOSE i \in MissingSources(files) :
                                \A k \in MissingSources(files) : i <= k
               IN  report' = [report EXCEPT ![VideoJobs[first].filename] = "ERROR"]
            /\ UNCHANGED <<stage, idx, submitted>>
       ELSE /\ pc' = "vid_route"
            /\ stage' = "videos"
            /\ idx' = 1
            /\ submitted' = <<>>
            /\ UNCHANGED report
    /\ UNCHANGED <<script, bvars, syncvars, lbvars, mode, dry_run, servers, now, probeTime, pstart,
                   manifest, uploaded, completed, failed, files, jstate, npolls,
                   net, firstRoute, lastRoute, genExc, nprobes, snapUsed, answer>>
    /\ caught' = NoException

UploadOutcomes == {"same", "renamed", "fail"}

\* the workflow built and submitted although the upload failed
UploadFailsSubmitsAnyway(job) ==
    /\ jstate' = [jstate EXCEPT ![job.filename] = "Built"]
    /\ report' = [report EXCEPT ![job.filename] = "FAILED uploading"]
    /\ uploaded' = job.source_image
    /\ pc' = "vid_post"
    /\ caught' = Exception("URLError", "")
    /\ UNCHANGED <<idx, completed, failed>>

\* the except clause around upload_image: FAILED uploading printed, continue
UploadFails(job) ==
    /\ jstate' = [jstate EXCEPT ![job.filename] = "SubmissionRejected"]
    /\ report' = [report EXCEPT ![job.filename] = "FAILED uploading"]
    /\ NextSubmit("videos", "vid_route")
    /\ caught' = Exception("URLError", "")
    /\ UNCHANGED uploaded

\* the workflow built on the name of the local file
GraphImageLocal(job, uploaded_name) == job.source_image

\* image_filename in the call of workflow_wan_i2v: uploaded_name
GraphImage(job, uploaded_name) == uploaded_name

\* one iteration of the video submit loop up to the built workflow: the server is
\* looked up, the job skipped when it is not in servers, else the source image is
\* uploaded (the server may rename it; the upload fails when the file cannot be
\* read) and the workflow built on the returned name
VidRoute(upl) ==
    /\ script = "generate_api"
    /\ pc = "vid_route"
    /\ LET job == VideoJobs[idx]
           server == VideoTarget(job.model)
       IN  /\ RoutingDecision
           /\ job.source_image \notin files => upl = "fail"
           /\ IF ~ServerOnline(server, servers)
              THEN /\ jstate' = [jstate EXCEPT ![job.filename] = "Skipped"]
                   /\ report' = [report EXCEPT ![job.filename] = "SKIP"]
                   /\ NextSubmit("videos", "vid_route")
                   /\ caught' = NoException
                   /\ UNCHANGED <<net, uploaded>>
              ELSE /\ net' = net \cup {[job |-> job.filename, server |-> server,
                                        req |-> "upload"]}
                   /\ IF upl = "fail"
                      THEN UploadFails(job)
                      ELSE /\ uploaded' = IF upl = "same" THEN job.source_image
                                          ELSE "renamed-" \o job.source_image
                           /\ jstate' = [jstate EXCEPT ![job.filename] = "Built"]
                           /\ report' = [report EXCEPT ![job.filename] = "Uploaded"]
                           /\ pc' = "vid_post"
                           /\ caught' = NoException
                           /\ UNCHANGED <<idx, completed, failed>>
    /\ UNCHANGED <<script, call, syncvars, lbvars, mode, dry_run, stage, servers, now, probeTime,
                   submitted, pstart, manifest, files, npolls, genExc, nprobes, answer>>
    /\ graph' = NoGraph

VidPost(outcome) ==
    /\ script = "generate_api"
    /\ pc = "vid_post"
    /\ LET job == VideoJobs[idx]
           workflow == workflow_wan_i2v(job.motion_prompt, GraphImage(job, uploaded),
                                        job.seed, DefaultSteps, DefaultLength)
       IN  Post("videos", job, VideoTarget(job.model), workflow, outcome, "vid_route")
    /\ uploaded' = ""
    /\ UNCHANGED <<script, call, syncvars, lbvars, mode, dry_run, stage, servers, now, probeTime,
                   pstart, manifest, files, npolls, firstRoute, lastRoute,
                   genExc, nprobes, snapUsed, answer>>

\* the poll loop's next iteration: poll_completion is entered for submitted[idx],
\* start = time.time(); after the last entry the stage's summary is printed and
\* the function returns, which ends its locals
PollNext ==
    /\ script = "generate_api"
    /\ pc = "poll"
    /\ IF idx <= Len(submitted)
       THEN /\ pc' = "polling"
            /\ pstart' = now
            /\ jstate' = [jstate EXCEPT ![submitted[idx].job] = "Running"]
            /\ UNCHANGED <<idx, submitted, completed, failed>>
       ELSE /\ pc' = IF stage = "images" THEN AfterImages ELSE "done"
            /\ idx' = 0
            /\ submitted' = <<>>
            /\ completed' = 0
            /\ failed' = 0
            /\ UNCHANGED <<pstart, jstate>>
    /\ answer' = NoAnswer
    /\ UNCHANGED <<script, call, syncvars, lbvars, mode, dry_run, stage, servers, now, probeTime,
                   manifest, uploaded, files, report,
                   npolls, net, firstRoute, lastRoute, genExc, nprobes, snapUsed>>
    /\ caught' = NoException
    /\ graph' = NoGraph

\* What one GET /history/{prompt_id} can come to:
\*   ioerror   : URLError, OSError or JSONDecodeError (caught, pass)
\*   absent    : prompt_id is not in the answer
\*   running   : an entry, not completed, status_str is not "error"
\*   completed : an entry with status.completed true
\*   both      : an entry with completed true and status_str "error"
\*   error     : an entry, not completed, status_str "error"
\*   badshape  : JSON of another shape (the entry or its status is no object):
\*               AttributeError or TypeError, which the except clause does not name
HistoryResponses ==
    {"ioerror", "absent", "running", "completed", "both", "error", "badshape"}

\* the check of status_str left out
PollVerdictErrorIgnored(resp) ==
    IF resp \in {"completed", "both"} THEN "Completed"
    ELSE IF resp = "badshape" THEN "PollError"
    ELSE "sleep"

\* what leaves poll_completion other than by return: RuntimeError(f"Generation
\* failed: {msgs}"), TimeoutError(f"Prompt {prompt_id} timed out ..."), or the
\* AttributeError / TypeError of an answer of another shape
PollRaises(verdict) ==
    CASE verdict = "Failed" -> Exception("RuntimeError", "messages")
      [] verdict = "TimedOut" -> Exception("TimeoutError", "")
      [] verdict = "PollError" -> Exception("AttributeError", "")

\* status_str tested before completed
PollVerdictErrorFirst(resp) ==
    IF resp \in {"error", "both"} THEN "Failed"
    ELSE IF resp = "completed" THEN "Completed"
    ELSE IF resp = "badshape" THEN "PollError"
    ELSE "sleep"

\* what the body of poll_completion's loop does with an answer
PollVerdict(resp) ==
    IF resp \in {"completed", "both"} THEN "Completed"
    ELSE IF resp = "error" THEN "Failed"
    ELSE IF resp = "badshape" THEN "PollError"
    ELSE "sleep"

\* the poll loop asking the first server of the snapshot
PollServerFirst(e) == servers[1]

\* `for job, server, prompt_id in submitted`: the server poll_completion and
\* download_file are called with
PollServer(e) == e.server

\* the loop condition time.time() - start < timeout
PollLoopRuns(st) == now - pstart < StageTimeout(st)

\* the exception leaving the poll loop: no later entry is polled
JobFailsAborts(name, state) ==
    /\ jstate' = [jstate EXCEPT ![name] = state]
    /\ report' = [report EXCEPT ![name] = "FAIL"]
    /\ failed' = failed + 1
    /\ manifest' = <<>>
    /\ idx' = Len(submitted) + 1
    /\ pc' = "poll"

\* the except clause of the poll loop: failed += 1, [FAIL] printed, next entry
JobFails(name, state) ==
    /\ jstate' = [jstate EXCEPT ![name] = state]
    /\ report' = [report EXCEPT ![name] = "FAIL"]
    /\ failed' = failed + 1
    /\ manifest' = <<>>
    /\ idx' = idx + 1
    /\ pc' = "poll"

\* one pass of poll_completion's loop for submitted[idx]: GET /history, then
\* return, raise, or sleep POLL_INTERVAL. m is result["outputs"] of the entry
\* returned.
PollIter(resp, m) ==
    /\ script = "generate_api"
    /\ pc = "polling"
    /\ PollLoopRuns(stage)
    /\ resp \notin {"completed", "both"} => m = <<>>
    /\ LET e == submitted[idx]
           v == PollVerdict(resp)
       IN  /\ npolls' = [npolls EXCEPT ![e.job] = @ + 1]
           /\ answer' = [job |-> e.job, resp |-> resp, listed |-> Listed(m)]
           /\ net' = net \cup {[job |-> e.job, server |-> PollServer(e), req |-> "history"]}
           /\ CASE v = "sleep" ->
                     /\ now' = now + 1
                     /\ caught' = NoException
                     /\ UNCHANGED <<pc, idx, jstate, report, failed, manifest>>
                [] v = "Completed" ->
                     /\ jstate' = [jstate EXCEPT ![e.job] = "Completed"]
                     /\ manifest' = Exts(OutputItems(m))
                     /\ IF OutputItems(m) = <<>>
                        THEN pc' = "poll" /\ idx' = idx + 1
                        ELSE pc' = "download" /\ idx' = idx
                     /\ caught' = NoException
                     /\ UNCHANGED <<now, report, failed>>
                [] OTHER ->
                     /\ JobFails(e.job, v)
                     /\ caught' = PollRaises(v)
                     /\ UNCHANGED now
    /\ UNCHANGED <<script, bvars, syncvars, lbvars, mode, dry_run, stage, servers, probeTime, submitted,
                   pstart, uploaded, completed, files, firstRoute, lastRoute, genExc,
                   nprobes, snapUsed>>

\* a cancellation sent to the worker when the deadline has passed
TimeoutRequestsCancel(e) == {[job |-> e.job, server |-> e.server, req |-> "interrupt"]}

\* what is sent to the worker between the loop condition failing and the raise
\* that follows the loop: nothing
TimeoutRequests(e) == {}

\* the loop condition fails: raise TimeoutError
PollTimeout ==
    /\ script = "generate_api"
    /\ pc = "polling"
    /\ ~PollLoopRuns(stage)
    /\ JobFails(submitted[idx].job, "TimedOut")
    /\ caught' = PollRaises("TimedOut")
    /\ net' = net \cup TimeoutRequests(submitted[idx])
    /\ UNCHANGED <<script, bvars, syncvars, lbvars, mode, dry_run, stage, servers, now, probeTime,
                   submitted, pstart, uploaded, completed, files, npolls,
                   firstRoute, lastRoute, genExc, nprobes, snapUsed, answer>>

\* the except clause deleting what the job had saved
KeptFilesNoneOfJob(fs, name) == fs \ {FileName(name, x) : x \in {".png", ".webp"}}

\* TEST_DIR after the except clause of the poll loop, which touches no file
KeptFiles(fs, name) == fs

\* download_file for the next output item of the completed job, saved as
\* job["filename"] + ext; an exception ends the job's downloads
Download(ok) ==
    /\ script = "generate_api"
    /\ pc = "download"
    /\ LET e == submitted[idx]
           path == FileName(e.job, OutputExt(stage, Head(manifest)))
       IN  /\ net' = net \cup {[job |-> e.job, server |-> PollServer(e), req |-> "view"]}
           /\ IF ok
              THEN /\ files' = files \cup {path}
                   /\ completed' = completed + 1
                   /\ report' = [report EXCEPT ![e.job] = "Downloaded"]
                   /\ manifest' = Tail(manifest)
                   /\ IF Tail(manifest) = <<>>
                      THEN pc' = "poll" /\ idx' = idx + 1
                      ELSE pc' = "download" /\ idx' = idx
                   /\ caught' = NoException
                   /\ UNCHANGED <<jstate, failed>>
              ELSE /\ JobFails(e.job, jstate[e.job])
                   /\ caught' = Exception("URLError", "")
                   /\ files' = KeptFiles(files, e.job)
                   /\ UNCHANGED completed
    /\ UNCHANGED <<script, bvars, syncvars, lbvars, mode, dry_run, stage, servers, now, probeTime,
                   submitted, pstart, uploaded, npolls, firstRoute, lastRoute, genExc,
                   nprobes, snapUsed, answer>>

GenNext ==
    \/ \E up \in SUBSET {WRIGHT, NEUMANN} : Main(up)
    \/ GenerateImages
    \/ ImgRoute
    \/ \E o \in SubmitOutcomes : ImgPost(o)
    \/ GenerateVideos
    \/ \E u \in UploadOutcomes : VidRoute(u)
    \/ \E o \in SubmitOutcomes : VidPost(o)
    \/ PollNext
    \/ \E r \in HistoryResponses, m \in Manifests : PollIter(r, m)
    \/ PollTimeout
    \/ \E ok \in BOOLEAN : Download(ok)

LBNext ==
    \/ \E op \in {"status", "best", "submit"} : LBCall(op)
    \/ \E i \in DOMAIN SERVERS, resp \in QueueResponses : FutureDone(i, resp)
    \/ \E ok \in BOOLEAN : LBSubmit(ok)
    \/ LBReturn

-----------------------------------------------------------------------------
(* model_sync.py *)

\* SERVERS of model_sync.py: server name -> host:port
SYNC_SERVERS ==
    [n \in {"wright-a", "wright-b", "neumann-a", "neumann-b"} |->
        CASE n = "wright-a" -> "wright.gazelle-galaxy.ts.net:8188"
          [] n = "wright-b" -> "wright.gazelle-galaxy.ts.net:8189"
          [] n = "neumann-a" -> "neumann.gazelle-galaxy.ts.net:8188"
          [] n = "neumann-b" -> "neumann.gazelle-galaxy.ts.net:8189"]

\* the keys of SSH_HOSTS, in the order of the dict
SSH_HOSTS == <<"wright", "neumann">>

\* the keys of CATEGORY_DIRS, in the order of the dict
Categories ==
    <<"diffusion_models", "checkpoints", "text_encoders", "vae", "clip_vision", "loras",
      "controlnet", "upscale_models">>

\* manifest category -> ComfyUI subdirectory
CATEGORY_DIRS == [c \in Range(Categories) |-> c]

\* load_manifest(): the categories of models.yaml with their entries, in the
\* order of the file. One category is not in CATEGORY_DIRS, one has no entry.
Manifest ==
    <<[category |-> "diffusion_models",
       models |-> <<[name |-> "flux1-dev-fp8.safetensors", url |-> "https://hf/flux1-dev"],
                    [name |-> "z_image_turbo_bf16.safetensors", url |-> "https://hf/z"]>>],
      [category |-> "custom_nodes",
       models |-> <<[name |-> "node-pack", url |-> "https://hf/node-pack"]>>],
      [category |-> "loras", models |-> <<>>],
      [category |-> "vae",
       models |-> <<[name |-> "ae.safetensors", url |-> "https://hf/ae"]>>]>>

\* a model file on a host: subdirectory and name
File(subdir, name) == [subdir |-> subdir, name |-> name]

\* the files the manifest asks for in the known categories
ManifestFiles ==
    UNION {{File(CATEGORY_DIRS[Manifest[i].category], Manifest[i].models[k].name) :
                k \in DOMAIN Manifest[i].models} :
           i \in {j \in DOMAIN Manifest : Manifest[j].category \in DOMAIN CATEGORY_DIRS}}

\* what GET /models/{subdir} can come to: a JSON list of the files in the
\* directory, JSON that is no list, or an exception (host unreachable, timeout,
\* HTTP error, no JSON)
ListOutcomes == {"list", "nonlist", "fail"}

\* installed[category] in get_server_models: set(files) if isinstance(files, list)
\* else set(), and set() in the except clause
InstalledOf(outcome, onhost, subdir) ==
    IF outcome = "list"
    THEN {f.name : f \in {x \in onhost : x.subdir = subdir}}
    ELSE {}

\* the entries of one category the host lacks, as (subdir, name, url)
MissingOf(entry, inst) ==
    IF entry.category \notin DOMAIN CATEGORY_DIRS \/ entry.models = <<>>
    THEN <<>>
    ELSE LET lacking == SelectSeq(entry.models,
                                  LAMBDA m : m.name \notin inst[entry.category])
         IN  [k \in DOMAIN lacking |->
                 [subdir |-> CATEGORY_DIRS[entry.category], name |-> lacking[k].name,
                  url |-> lacking[k].url]]

\* to_download in cmd_sync, for the installed sets inst
ToDownload(inst) == Concat([i \in DOMAIN Manifest |-> MissingOf(Manifest[i], inst)])

\* what the operator can type at the prompt, as the list of its characters
Answers ==
    {<<"y">>, <<"Y">>, <<" ", "y", " ">>, <<"y", "e", "s">>, <<"n">>, <<"N">>, <<>>}

IsSpace(ch) == ch \in {" ", "\t"}

RECURSIVE LStrip(_)
LStrip(s) == IF s # <<>> /\ IsSpace(Head(s)) THEN LStrip(Tail(s)) ELSE s

RECURSIVE RStrip(_)
RStrip(s) ==
    IF s # <<>> /\ IsSpace(s[Len(s)]) THEN RStrip(SubSeq(s, 1, Len(s) - 1)) ELSE s

\* str.strip()
Strip(s) == RStrip(LStrip(s))

\* str.lower(), on the letters of Answers
Lower(s) ==
    [i \in DOMAIN s |->
        CASE s[i] = "Y" -> "y"
          [] s[i] = "N" -> "n"
          [] s[i] = "E" -> "e"
          [] s[i] = "S" -> "s"
          [] OTHER -> s[i]]

\* an answer that starts with y taken for consent
ConsentsPrefix(a) == Lower(Strip(a)) # <<>> /\ Head(Lower(Strip(a))) = "y"

\* input(...).strip().lower() is "y"
Consents(a) == Lower(Strip(a)) = <<"y">>

\* no answer was asked for
NoConfirm == <<"-">>

\* cmd_sync: the loop `for host_key in SSH_HOSTS` takes the next host, queries
\* nothing yet; after the last host the command is over
SyncHost ==
    /\ script = "model_sync"
    /\ spc = "loop"
    /\ IF hidx <= Len(SSH_HOSTS)
       THEN /\ spc' = "listing"
            /\ cidx' = 1
       ELSE /\ spc' = "done"
            /\ cidx' = 0
    /\ installed' = [c \in Range(Categories) |-> {}]
    /\ to_download' = <<>>
    /\ confirm' = NoConfirm
    /\ didx' = 0
    /\ UNCHANGED <<script, lbvars, genvars, bvars, nprobes, snapUsed, hidx, onhosts,
                   downloads>>

\* get_server_models: one pass of its loop, the query for Categories[cidx] on the
\* host's -a server; after the last category cmd_sync builds to_download and
\* either goes on to the next host ("Already in sync.") or asks
ListModels(outcome) ==
    /\ script = "model_sync"
    /\ spc = "listing"
    /\ LET category == Categories[cidx]
           host == SSH_HOSTS[hidx]
       IN  /\ installed' = [installed EXCEPT ![category] =
                               InstalledOf(outcome, onhosts[host], CATEGORY_DIRS[category])]
           /\ IF cidx < Len(Categories)
              THEN /\ cidx' = cidx + 1
                   /\ UNCHANGED <<spc, hidx, to_download>>
              ELSE /\ cidx' = 0
                   /\ to_download' = ToDownload(installed')
                   /\ IF to_download' = <<>>
                      THEN spc' = "loop" /\ hidx' = hidx + 1
                      ELSE spc' = "confirm" /\ UNCHANGED hidx
    /\ UNCHANGED <<script, lbvars, genvars, bvars, nprobes, snapUsed, onhosts, confirm,
                   didx, downloads>>

\* confirm = input(...).strip().lower(); anything but "y" skips the host
Confirm(a) ==
    /\ script = "model_sync"
    /\ spc = "confirm"
    /\ confirm' = a
    /\ IF Consents(a)
       THEN /\ spc' = "download"
            /\ didx' = 1
            /\ UNCHANGED hidx
       ELSE /\ spc' = "loop"
            /\ didx' = 0
            /\ hidx' = hidx + 1
    /\ UNCHANGED <<script, lbvars, genvars, bvars, nprobes, snapUsed, onhosts, installed,
                   to_download, cidx, downloads>>

\* what ssh_download can come to: ok (wget and mv succeeded), failed (returncode
\* is not 0, False returned), timeout (subprocess.run raises TimeoutExpired)
DownloadOutcomes == {"ok", "failed", "timeout"}

\* ssh_download for to_download[didx]: wget to a .tmp file and mv onto the target
SshDownload(outcome) ==
    /\ script = "model_sync"
    /\ spc = "download"
    /\ LET host == SSH_HOSTS[hidx]
           d == to_download[didx]
       IN  /\ downloads' = downloads \cup {[host |-> host, subdir |-> d.subdir,
                                            name |-> d.name]}
           /\ onhosts' = IF outcome = "ok"
                         THEN [onhosts EXCEPT ![host] = @ \cup {File(d.subdir, d.name)}]
                         ELSE onhosts
           /\ IF outcome = "timeout"
              THEN spc' = "crashed" /\ UNCHANGED <<hidx, didx>>
              ELSE IF didx < Len(to_download)
              THEN didx' = didx + 1 /\ UNCHANGED <<spc, hidx>>
              ELSE spc' = "loop" /\ didx' = 0 /\ hidx' = hidx + 1
    /\ UNCHANGED <<script, lbvars, genvars, bvars, nprobes, snapUsed, installed,
                   to_download, confirm, cidx>>

SyncNext ==
    \/ SyncHost
    \/ \E o \in ListOutcomes : ListModels(o)
    \/ \E a \in Answers : Confirm(a)
    \/ \E o \in DownloadOutcomes : SshDownload(o)

\* python model_sync.py sync is about to enter cmd_sync's loop; each host holds
\* some of the files the manifest asks for
InitSyncVars ==
    /\ spc = "loop"
    /\ hidx = 1
    /\ cidx = 0
    /\ didx = 0
    /\ installed = [c \in Range(Categories) |-> {}]
    /\ to_download = <<>>
    /\ confirm = NoConfirm
    /\ onhosts \in [Range(SSH_HOSTS) -> SUBSET ManifestFiles]
    /\ downloads = {}

\* the state of model_sync's variables in a process that runs another script
IdleSync ==
    /\ onhosts = [h \in Range(SSH_HOSTS) |-> {}]
    /\ InitSyncVars

-----------------------------------------------------------------------------

InitLB ==
    /\ lbpc = "idle"
    /\ caller = "status"
    /\ futures = {}
    /\ results = <<>>
    /\ lastResp = [url |-> None, kind |-> "none", running |-> 0, pending |-> 0]
    /\ best = None
    /\ posted = None
    /\ lbExc = ""
    /\ ncalls = 0

\* the process has started; TEST_DIR may hold source images of an earlier run
InitGen ==
    /\ mode \in {"all", "images", "videos"}
    /\ dry_run \in BOOLEAN
    /\ pc = "main"
    /\ stage = "none"
    /\ servers = <<>>
    /\ now = 0
    /\ probeTime = 0
    /\ idx = 0
    /\ submitted = <<>>
    /\ pstart = 0
    /\ manifest = <<>>
    /\ uploaded = ""
    /\ completed = 0
    /\ failed = 0
    /\ files \in SUBSET SourceImages
    /\ jstate = [n \in JobNames |-> "New"]
    /\ report = [n \in JobNames |-> ""]
    /\ npolls = [n \in JobNames |-> 0]
    /\ net = {}
    /\ firstRoute = -1
    /\ lastRoute = -1
    /\ genExc = ""
    /\ answer = NoAnswer
    /\ caught = NoException

\* the state of generate_api's variables in a process that runs the other script
IdleGen ==
    /\ mode = "all"
    /\ dry_run = FALSE
    /\ files = {}
    /\ InitGen

\* a process that runs script s has started
Start(s) ==
    /\ script = s
    /\ InitLB
    /\ IF s = "generate_api" THEN InitGen ELSE IdleGen
    /\ call = NoCall
    /\ graph = NoGraph
    /\ IdleSync
    /\ nprobes = 0
    /\ snapUsed = {}

Init == \E s \in {"comfyui_server", "generate_api"} : Start(s)

InitRun == Start("generate_api")

InitServer == Start("comfyui_server")

\* the widths and heights a builder is called with: those of SIZES, and 0
Widths == {0, 768, 1280}
Heights == {0, 720, 1024}

\* the calls of the four image builders
ImageCalls ==
    [builder : {"flux_dev", "flux_schnell", "sd35", "z_turbo"}, prompt : {"prompt"},
     neg : {"", "neg"}, width : Widths, height : Heights, seed : 0..MaxSeed,
     image : {""}, steps : {0}, length : {0}]

\* the calls of workflow_wan_i2v
VideoCalls ==
    [builder : {"wan_i2v"}, prompt : {"motion"}, neg : {""}, width : {0}, height : {0},
     seed : 0..MaxSeed,
     image : {"dog-c01-flux_dev.png", "renamed-dog-c01-flux_dev.png"},
     steps : 0..MaxSteps, length : {DefaultLength}]

\* a builder is about to be called
InitBuild ==
    /\ script = "workflow"
    /\ InitLB
    /\ IdleGen
    /\ call \in ImageCalls \cup VideoCalls
    /\ graph = NoGraph
    /\ IdleSync
    /\ nprobes = 0
    /\ snapUsed = {}

\* the builder returns its graph
Build ==
    /\ script = "workflow"
    /\ graph = NoGraph
    /\ graph' = CallBuilder(call)
    /\ UNCHANGED <<script, lbvars, genvars, syncvars, call, nprobes, snapUsed>>

\* python model_sync.py sync has started
InitSync ==
    /\ script = "model_sync"
    /\ InitLB
    /\ IdleGen
    /\ call = NoCall
    /\ graph = NoGraph
    /\ InitSyncVars
    /\ nprobes = 0
    /\ snapUsed = {}

Next == LBNext \/ GenNext

\* a run of generate_api.py
Spec == InitRun /\ [][GenNext]_vars

\* a process using comfyui_server.py
SpecLB == InitServer /\ [][LBNext]_vars

\* either script
SpecAll == Init /\ [][Next]_vars

\* a call of a workflow builder
SpecBuild == InitBuild /\ [][Build]_vars

\* python model_sync.py sync
SpecSync == InitSync /\ [][SyncNext]_vars

-----------------------------------------------------------------------------
(* Properties of comfyui_server.py *)

\* the position of a URL in SERVERS: the configuration order
ConfigIndex(url) == CHOOSE i \in DOMAIN SERVERS : SERVERS[i] = url

\* check_all_servers has returned its sorted list
ProbeReturned == lbpc \in {"returned", "posted"}

OnlineStatuses == {i \in DOMAIN results : results[i].online}

\* C2: get_best_server returns the online worker of minimum load, the first in
\* SERVERS among those of equal load, and None only when no worker is online.
C2_LeastLoadConfigOrder ==
    (ProbeReturned /\ caller \in {"best", "submit"}) =>
        /\ (best = None) <=> (OnlineStatuses = {})
        /\ best # None =>
              \E i \in OnlineStatuses :
                  /\ results[i].url = best
                  /\ \A j \in OnlineStatuses :
                        \/ results[i].load < results[j].load
                        \/ /\ results[i].load = results[j].load
                           /\ ConfigIndex(best) <= ConfigIndex(results[j].url)

\* C4: check_all_servers never raises, whatever each worker answers; it returns
\* one status per configured worker once every future is done, and a worker whose
\* answer is an error, a timeout or malformed is recorded offline with load +inf.
C4_ProbeTotality ==
    /\ lbExc # "AttributeError"
    /\ ProbeReturned =>
          /\ futures = {}
          /\ Len(results) = Len(SERVERS)
          /\ \A k \in DOMAIN SERVERS :
                Cardinality({i \in DOMAIN results : results[i].url = SERVERS[k]}) = 1
    /\ \A i \in DOMAIN results :
          (results[i].url = lastResp.url /\ lastResp.kind # "dict") =>
              (~results[i].online /\ results[i].load = Infinity)

\* C5: whatever order the probes finish in, the returned list has the online
\* workers first by ascending load, then the offline ones, and workers of equal
\* sort position in configuration order.
C5_OrderedConfigTies ==
    ProbeReturned =>
        \A i, j \in DOMAIN results :
            i < j =>
                /\ ~KeyLess(results[j], results[i])
                /\ (~KeyLess(results[i], results[j])) =>
                      ConfigIndex(results[i].url) < ConfigIndex(results[j].url)

\* C6: every status a probe produced has load = running + pending when online,
\* running and pending being the lengths of the reported queues, and load = +inf
\* when offline.
C6_StatusInvariant ==
    \A i \in DOMAIN results :
        LET s == results[i]
        IN  /\ s.online => s.load = s.running + s.pending
            /\ ~s.online => s.load = Infinity
            /\ s.url = lastResp.url =>
                  /\ s.online <=> lastResp.kind = "dict"
                  /\ s.online => (s.running = lastResp.running
                                  /\ s.pending = lastResp.pending)

\* a probe has recorded a worker with a pending entry and another one offline
C6_Witness ==
    /\ \E i \in DOMAIN results :
          results[i].online /\ results[i].pending = 1 /\ results[i].url = lastResp.url
    /\ \E i \in DOMAIN results : ~results[i].online

\* C7: all routing decisions of a dispatch round read one probe snapshot: no
\* submission takes a fresh probe of the workers.
C7_SingleSnapshot == Cardinality(snapUsed) <= 1

-----------------------------------------------------------------------------
(* Properties of generate_api.py *)

\* the submit loop has reached the job and looked up its server
WasRouted(name) == jstate[name] # "New"

\* the server MODEL_SERVER names for the job's model
Configured(name) == MODEL_SERVER[JobModel(name)]

Requests(name) == {r \in net : r.job = name}

\* C1 as the spec states it: a job whose affine worker is offline while another
\* worker is online is not skipped; routing falls back to the online workers.
C1_AffinityFallback ==
    \A n \in JobNames :
        (WasRouted(n) /\ Configured(n) \notin Range(servers) /\ servers # <<>>) =>
            jstate[n] # "Skipped"

\* C1, amended: a job is sent only to the server MODEL_SERVER names for its model;
\* when that server is not in the snapshot the job is skipped and nothing is sent
\* for it, whichever other servers are online.
C1_StaticRouting ==
    /\ \A n \in JobNames :
          WasRouted(n) =>
              /\ (jstate[n] = "Skipped") <=> (Configured(n) \notin Range(servers))
              /\ jstate[n] = "Skipped" => Requests(n) = {}
    /\ \A r \in net : r.server = Configured(r.job)

\* an image job was skipped with the other server online, which took its own job
C1_Witness ==
    /\ \E n \in ImageNames : jstate[n] = "Skipped"
    /\ \E r \in net : r.job \in ImageNames /\ r.req = "prompt"
    /\ Len(servers) = 1

\* C3: a workflow is POSTed only to a worker that the snapshot read for the
\* routing decision records as online; with no eligible worker online nothing is
\* sent for the job, and RuntimeError (comfyui_server) or a skip (generate_api)
\* says so.
C3_NoSubmitToOffline ==
    /\ lbpc = "posted" =>
          \E i \in OnlineStatuses : results[i].url = posted
    /\ (lbpc = "returned" /\ caller = "submit") => posted = None
    /\ lbExc = "RuntimeError" => (posted = None /\ OnlineStatuses = {})
    /\ \A r \in net : r.server \in Range(servers)
    /\ \A n \in JobNames :
          (WasRouted(n) /\ Configured(n) \notin Range(servers)) =>
              (Requests(n) = {} /\ report[n] = "SKIP")
    /\ pc = "exit" => net = {}

\* both scripts at work: comfyui_server has POSTed to the best server, or
\* generate_api has POSTed one job and skipped another
C3_Witness ==
    \/ lbpc = "posted" /\ Len(results) = Len(SERVERS) /\ ~results[Len(results)].online
    \/ /\ \E r \in net : r.req = "prompt"
       /\ \E n \in JobNames : report[n] = "SKIP"

\* the staleness window of the spec, in units of POLL_INTERVAL; the script has
\* no such setting
StalenessWindow == 1

\* C8: no snapshot is read by two routing decisions that lie more than the
\* staleness window apart; the snapshot taken before the image stage does not
\* route the video stage after a long image stage.
C8_SnapshotFresh ==
    firstRoute # -1 => lastRoute - firstRoute <= StalenessWindow

Rank(state) ==
    CASE state = "New" -> 0
      [] state = "Built" -> 1
      [] state = "Submitted" -> 2
      [] state = "Running" -> 3
      [] OTHER -> 4

\* C9: a job moves only forward through Built, Submitted, Running and then
\* Completed, Failed or TimedOut; it becomes Submitted only from Built, Running
\* only from Submitted, terminal only from Submitted or Running; once terminal it
\* keeps its state and no further GET /history is sent for it.
C9_StateMachine ==
    [][\A n \in JobNames :
          /\ Rank(jstate'[n]) >= Rank(jstate[n])
          /\ (jstate'[n] = "Submitted" /\ jstate[n] # "Submitted") => jstate[n] = "Built"
          /\ (jstate'[n] = "Running" /\ jstate[n] # "Running") => jstate[n] = "Submitted"
          /\ (jstate'[n] \in Terminal /\ jstate[n] \notin Terminal) =>
                jstate[n] \in {"Submitted", "Running"}
          /\ jstate[n] \in Terminal =>
                (jstate'[n] = jstate[n] /\ npolls'[n] = npolls[n])]_vars

\* a run ended with one job Completed and another TimedOut after being polled
C9_Witness ==
    /\ pc = "done"
    /\ \E n \in JobNames : jstate[n] = "Completed"
    /\ \E n \in JobNames : jstate[n] = "TimedOut" /\ npolls[n] > 0

\* C10: a job that is never reported completed nor in error before the deadline
\* ends TimedOut, and what the caller records for it differs from what it
\* records for a Failed job.
C10_TimedOutDistinct ==
    \A n, k \in JobNames :
        (jstate[n] = "TimedOut" /\ jstate[k] = "Failed") => report[n] # report[k]

\* the latest GET /history was answered resp for a job
Answered(resp) == answer.resp = resp

\* C11 as the spec states it: a poll that observes an entry whose status_str is
\* "error" moves the job to Failed, whatever else the entry says.
C11_FailedOnAnyError ==
    (Answered("error") \/ Answered("both")) => jstate[answer.job] = "Failed"

\* C11, amended: a poll that observes an entry with status_str "error" and
\* completed not true moves the job to Failed at once: poll_completion is left
\* before the deadline with a RuntimeError that holds the worker's messages, and
\* the caller reports the job failed; no further poll is sent for it.
C11_ImmediateFailure ==
    Answered("error") =>
        /\ jstate[answer.job] = "Failed"
        /\ report[answer.job] = "FAIL"
        /\ caught = Exception("RuntimeError", "messages")
        /\ pc # "polling"
        /\ now - pstart < StageTimeout(stage)

\* a job failed on the answer to its second poll
C11_Witness ==
    /\ Answered("error")
    /\ jstate[answer.job] = "Failed"
    /\ npolls[answer.job] = 2

\* the entries of submitted whose job has reached no terminal outcome yet
Pending == {i \in DOMAIN submitted : jstate[submitted[i].job] \in {"Submitted", "Running"}}

\* C12: the timeout runs from the job's submission: no job of a stage is still
\* waiting or being polled once more than the stage's timeout has passed since it
\* was submitted, however many jobs were polled before it.
C12_TimeoutFromSubmission ==
    \A i \in Pending : now - submitted[i].at <= StageTimeout(stage)

\* this step sent a GET /history and got one of the answers in resps
Polled(resps) == npolls' # npolls /\ answer'.resp \in resps

\* the step left the job polled where it was: still in poll_completion, in the
\* same state, nothing raised, the next poll an interval later
Swallowed ==
    /\ jstate'[answer'.job] = jstate[answer'.job]
    /\ pc' = "polling"
    /\ caught' = NoException
    /\ failed' = failed
    /\ now' = now + 1

\* C13: an I/O error during a poll (no connection, read timeout, a body that is
\* not JSON, or JSON of an unexpected shape) leaves the job in its non-terminal
\* state and polling resumes at the next interval; the error does not escape
\* the poller.
C13_PollErrorsSwallowed ==
    [][Polled({"ioerror", "badshape"}) => Swallowed]_vars

\* the jobs that have an entry (a prompt_id) in submitted
Handles == {submitted[i].job : i \in DOMAIN submitted}

\* this step is the POST /prompt of job n being rejected
Rejected(n) ==
    /\ jstate[n] = "Built"
    /\ jstate'[n] = "SubmissionRejected"
    /\ report'[n] = "FAILED"

\* a rejected job has no handle, was never polled and had nothing fetched
NeverPursued(n) ==
    /\ n \notin Handles'
    /\ npolls'[n] = 0
    /\ \A r \in net' : r.job = n => r.req \in {"upload", "prompt"}

\* C14: a job whose submission is rejected (the response carries an error, an
\* HTTP error status, or no prompt_id) never enters Submitted, gets no handle, is
\* never polled and has nothing fetched; it fails at once, and the failure it is
\* reported with holds the worker's rejection payload.
C14_SubmissionRejection ==
    [][\A n \in JobNames :
          /\ jstate'[n] = "SubmissionRejected" => NeverPursued(n)
          /\ jstate[n] = "SubmissionRejected" => jstate'[n] = "SubmissionRejected"
          /\ Rejected(n) => caught'.detail = "error"]_vars

\* the POST /prompt requests sent for job n
Prompts(n) == {r \in net : r.job = n /\ r.req = "prompt"}

\* the submit loop is done with job n: accepted, rejected or skipped
Attempted(n) == jstate[n] \notin {"New", "Built"}

\* C15: within a run every job is submitted at most once: the submit loop never
\* comes back to a job it is done with, so a job that ended SubmissionRejected,
\* Failed or TimedOut is not built or POSTed again and has at most one entry in
\* submitted.
C15_NoRetry ==
    [][\A n \in JobNames :
          /\ Attempted(n) =>
                /\ jstate'[n] \notin {"New", "Built"}
                /\ jstate'[n] = "Submitted" => jstate[n] = "Submitted"
                /\ Prompts(n)' = Prompts(n)
          /\ Cardinality({i \in DOMAIN submitted' : submitted'[i].job = n}) <= 1]_vars

\* a run ended with a rejected, a failed and a timed-out job
C15_Witness ==
    /\ pc = "done"
    /\ \E n \in JobNames : jstate[n] = "SubmissionRejected" /\ Prompts(n) # {}
    /\ \E n \in JobNames : jstate[n] = "Failed"
    /\ \E n \in JobNames : jstate[n] = "TimedOut"

\* C16: once a job's timeout has fired no further request of any kind (history
\* poll, fetch, cancellation) is sent to the worker for it: none by the step that
\* raises TimeoutError, none afterwards.
C16_CooperativeTimeout ==
    [][\A n \in JobNames :
          jstate'[n] = "TimedOut" =>
              /\ Requests(n)' = Requests(n)
              /\ npolls'[n] = npolls[n]
              /\ \A r \in Requests(n)' : r.req \in {"upload", "prompt", "history"}]_vars

\* the first job of a stage timed out after being polled, and the run went on to
\* poll the next job
C16_Witness ==
    /\ pc = "polling"
    /\ idx = 2
    /\ jstate[submitted[1].job] = "TimedOut"
    /\ npolls[submitted[1].job] > 0
    /\ npolls[submitted[2].job] > 0

\* poll_completion is running for a job that was not terminal a poll interval
\* after its first poll
StillPolling == pc = "polling" /\ now > pstart

\* C17: polling one job blocks that job only: while one job is being polled and
\* is not terminal, the other submitted jobs of the stage are polled too, so
\* that none of them is still waiting for its first poll a poll interval later.
C17_PollingIndependent ==
    StillPolling => \A i \in DOMAIN submitted : npolls[submitted[i].job] > 0

\* this step is poll_completion returning the entry of a completed job
Completes == pc = "polling" /\ jstate'[submitted[idx].job] = "Completed"

\* this step is a download_file call that saved its file
Fetches == pc = "download" /\ completed' = completed + 1

\* this step ends the retrieval of the job's outputs
EndsRetrieval == pc = "download" /\ pc' # "download"

\* C18: for a Completed job every output file the entry lists, under any node
\* and any category, is fetched, and saved as the job's name followed by the
\* file's own extension: all listed items are taken up for download, each fetch
\* saves under that name, and the retrieval ends with the last listed item only.
C18_EveryOutputRetrieved ==
    [][/\ Completes => Len(manifest') = answer'.listed
       /\ (Fetches /\ Head(manifest) # "") =>
              files' = files \cup {FileName(submitted[idx].job, Head(manifest))}
       /\ EndsRetrieval => Len(manifest) = 1]_vars

\* this step is a download_file call that raised
FetchFails == pc = "download" /\ failed' = failed + 1

\* the poll loop of a stage is at work before and after the step
InPollLoop ==
    /\ pc \in {"poll", "polling", "download"}
    /\ pc' \in {"poll", "polling", "download"}

BuiltNames ==
    [i \in DOMAIN build_image_jobs |-> build_image_jobs[i].filename]
    \o [i \in DOMAIN build_video_jobs |-> build_video_jobs[i].filename]

\* the extensions a file is saved with: what a worker names its outputs with, and
\* the two defaults
SavedExts == {".png", ".webp", ".gif", ".mp4"}

\* no two jobs of the two lists have the same name
NamesDistinct ==
    \A i, k \in DOMAIN BuiltNames : i # k => BuiltNames[i] # BuiltNames[k]

\* no two jobs have a local output path in common
PathsDistinct ==
    \A i, k \in DOMAIN BuiltNames :
        i # k => \A x, y \in SavedExts :
                    FileName(BuiltNames[i], x) # FileName(BuiltNames[k], y)

\* the jobs that have fetched an output
Fetchers == {r.job : r \in {q \in net : q.req = "view"}}

\* the jobs a file in TEST_DIR can have been saved by
Writers(f) == {n \in Fetchers : \E x \in SavedExts : FileName(n, x) = f}

\* C20: no two jobs built for a run, image jobs of both style families and video
\* jobs, have the same client identifier, so no two jobs write the same local
\* path: a file in TEST_DIR has at most one job that can have saved it.
C20_UniqueOutputNames ==
    /\ Len(BuiltNames) = Len(build_image_jobs) + Len(build_video_jobs)
    /\ NamesDistinct
    /\ PathsDistinct
    /\ \A f \in files : Cardinality(Writers(f)) <= 1

\* all 60 jobs were built, and in the run an image job and a video job have each
\* saved a file
C20_Witness ==
    /\ Len(BuiltNames) = 60
    /\ \E f, h \in files :
          /\ Writers(f) \cap ImageNames # {}
          /\ Writers(h) \cap VideoNames # {}

-----------------------------------------------------------------------------
(* Properties of the stages of generate_api.py *)

\* the names of the jobs of a stage, in the order of its job list
StageNames(st) == [i \in DOMAIN StageJobs(st) |-> StageJobs(st)[i].filename]

\* the outcomes a job can have had when its stage is over
Outcomes == {"Skipped", "SubmissionRejected", "Completed", "Failed", "TimedOut", "PollError"}

\* the stage function returns after its poll loop
StageReturns == pc = "poll" /\ pc' \notin {"poll", "polling"}

\* a step in which a job is reported as failed
FailureOf(n) == report'[n] # report[n] /\ report'[n] \in {"FAILED", "FAILED uploading", "FAIL"}

VideosOver == pc = "done" /\ ~dry_run /\ mode \in {"all", "videos"}

\* the upload requests sent for a job
Uploads(n) == {r \in net : r.job = n /\ r.req = "upload"}

\* C22: when the source image of some video job is absent, only that job is
\* skipped: every video job whose source image exists is still routed, and (its
\* server being online) its source uploaded.
C22_SkipOnlyAffected ==
    VideosOver =>
        \A i \in DOMAIN VideoJobs :
            VideoJobs[i].source_image \in files =>
                /\ WasRouted(VideoJobs[i].filename)
                /\ ServerOnline(VideoTarget(VideoJobs[i].model), servers) =>
                       Uploads(VideoJobs[i].filename) # {}

\* C23: a video job whose source image is absent locally is reported as rejected,
\* and no upload, submit, poll or fetch request is sent to a worker for it.
C23_UnmetDependencyRejected ==
    VideosOver =>
        \A i \in DOMAIN VideoJobs :
            VideoJobs[i].source_image \notin files =>
                /\ report[VideoJobs[i].filename] \in {"ERROR", "FAILED", "FAILED uploading"}
                /\ Requests(VideoJobs[i].filename) = {}

\* the requests of a kind that a step sends for a job
Sent(n, req) == {r \in net' : r.job = n /\ r.req = req} \ net

\* C24: for every video job the order is route, upload the source image to the
\* chosen worker, build the graph, submit: the upload goes to the worker routing
\* chose and precedes the submission, the graph is submitted to the worker the
\* image was uploaded to, and the image the graph's LoadImage node names is the
\* name the upload returned.
C24_StagingOrder ==
    [][\A i \in DOMAIN VideoJobs :
          LET job == VideoJobs[i]
              n == job.filename
          IN  /\ \A r \in Sent(n, "upload") :
                    /\ r.server = VideoTarget(job.model)
                    /\ ServerOnline(r.server, servers)
                    /\ lastRoute' = now
                    /\ Prompts(n) = {}
                    /\ Sent(n, "prompt") = {}
              /\ \A r \in Sent(n, "prompt") :
                    /\ \E u \in Uploads(n) : u.server = r.server
                    /\ jstate[n] = "Built"
                    /\ report[n] = "Uploaded"
                    /\ uploaded \in {job.source_image, "renamed-" \o job.source_image}
                    /\ ImageLiteral(graph') = uploaded
                    /\ graph' = workflow_wan_i2v(job.motion_prompt, uploaded, job.seed,
                                                 DefaultSteps, DefaultLength)]_vars

\* a graph just submitted for a video job whose upload the worker renamed
C24_Witness ==
    /\ graph # NoGraph
    /\ \E i \in DOMAIN VideoJobs :
          /\ ImageLiteral(graph) = "renamed-" \o VideoJobs[i].source_image
          /\ Prompts(VideoJobs[i].filename) # {}
          /\ Uploads(VideoJobs[i].filename) # {}

\* the upload for a job has failed
StagingFailed(n) == report[n] = "FAILED uploading"

\* C25: when the upload of the source image fails, the job's graph is not built
\* and not submitted, the job is recorded as rejected with the upload's error,
\* and the loop goes on with the remaining jobs of the stage.
C25_StagingFailure ==
    [][\A i \in DOMAIN VideoJobs :
          LET n == VideoJobs[i].filename
          IN  /\ (~StagingFailed(n) /\ StagingFailed(n)') =>
                    /\ i = idx
                    /\ caught'.type # ""
                    /\ graph' = NoGraph
                    /\ \/ pc' = "vid_route" /\ idx' = idx + 1
                       \/ pc' = "poll" /\ idx = Len(VideoJobs)
              /\ StagingFailed(n)' =>
                    /\ jstate'[n] = "SubmissionRejected"
                    /\ {r \in net' : r.job = n /\ r.req \in {"prompt", "history", "view"}} = {}
                    /\ \A k \in DOMAIN submitted' : submitted'[k].job # n]_vars

\* the upload for the first video job failed, the second one was submitted and
\* has completed
C25_Witness ==
    /\ Len(VideoJobs) >= 2
    /\ StagingFailed(VideoJobs[1].filename)
    /\ jstate[VideoJobs[2].filename] = "Completed"
    /\ Prompts(VideoJobs[2].filename) # {}

\* a job is under way: built, submitted or being polled
UnderWay(n) == jstate[n] \in {"Built", "Submitted", "Running"}

\* C26: no video job is built or submitted before every image job of the run has
\* come to its outcome, and a video job is built only when its source image
\* exists locally.
C26_StageBarrier ==
    \A i \in DOMAIN VideoJobs :
        LET v == VideoJobs[i]
        IN  /\ WasRouted(v.filename) =>
                  /\ \A n \in ImageNames : ~UnderWay(n)
                  /\ mode = "all" => \A n \in ImageNames : jstate[n] \in Outcomes
            /\ (jstate[v.filename] \notin {"New", "Skipped"} \/ Requests(v.filename) # {}) =>
                  v.source_image \in files

\* a run of both stages in which a video job is built after an image job completed
C26_Witness ==
    /\ mode = "all"
    /\ pc = "vid_post"
    /\ jstate[VideoJobs[idx].filename] = "Built"
    /\ \E n \in ImageNames : jstate[n] = "Completed" /\ report[n] = "Downloaded"

-----------------------------------------------------------------------------
(* Properties of the workflow builders *)

\* the dual-expert builder has returned
DualExpertBuilt == graph # NoGraph /\ call.builder = "wan_i2v"

\* the inputs of the two sampler passes
Pass1 == graph["11"].inputs
Pass2 == graph["12"].inputs

\* C27: for every step count steps >= 0 the dual-expert graph has pass 1 end at
\* floor(steps / 2) (20 -> 10, 7 -> 3), pass 2 start where pass 1 ends, pass 1
\* start at 0, and both passes carry the same seed and the same total step count.
C27_StepSplit ==
    DualExpertBuilt =>
        /\ 2 * Pass1.end_at_step.value <= call.steps
        /\ call.steps < 2 * Pass1.end_at_step.value + 2
        /\ call.steps = 20 => Pass1.end_at_step.value = 10
        /\ call.steps = 7 => Pass1.end_at_step.value = 3
        /\ Pass2.start_at_step.value = Pass1.end_at_step.value
        /\ Pass1.start_at_step.value = 0
        /\ Pass1.noise_seed.value = call.seed
        /\ Pass2.noise_seed.value = call.seed
        /\ Pass1.steps.value = call.steps
        /\ Pass2.steps.value = call.steps

\* the graph built for an odd step count
C27_Witness ==
    /\ DualExpertBuilt
    /\ call.steps = 7
    /\ Pass1.end_at_step.value = 3
    /\ Pass2.start_at_step.value = 3

\* the file an expert model behind a sampler's model input is loaded from: the
\* sampler is bound to a ModelSamplingSD3 node, that one to a UNETLoader
Expert(pass) ==
    LET pre == graph[pass.model.node]
        loader == graph[pre.inputs.model.node]
    IN  IF pre.class_type = "ModelSamplingSD3" /\ loader.class_type = "UNETLoader"
        THEN loader.inputs.unet_name.value
        ELSE ""

\* the nodes of a class
NodesOf(g, class) == {n \in DOMAIN g : g[n].class_type = class}

\* C28: in the dual-expert graph pass 2's latent input is bound to pass 1's
\* output, both passes are bound to the same positive and the same negative
\* conditioning, each to a different pre-processed expert model, pass 1 adds
\* noise and returns leftover noise, pass 2 adds none, and the decode node
\* consumes pass 2.
C28_DualExpertWiring ==
    DualExpertBuilt =>
        /\ NodesOf(graph, "KSamplerAdvanced") = {"11", "12"}
        /\ Pass2.latent_image = Bind("11", 0)
        /\ Pass1.latent_image.node \notin {"11", "12"}
        /\ Pass1.positive.kind = "bind" /\ Pass2.positive = Pass1.positive
        /\ Pass1.negative.kind = "bind" /\ Pass2.negative = Pass1.negative
        /\ Pass1.positive # Pass1.negative
        /\ Pass1.model.node # Pass2.model.node
        /\ Expert(Pass1) # "" /\ Expert(Pass2) # "" /\ Expert(Pass1) # Expert(Pass2)
        /\ Pass1.add_noise.value = "enable"
        /\ Pass1.return_with_leftover_noise.value = "enable"
        /\ Pass2.add_noise.value = "disable"
        /\ \A d \in NodesOf(graph, "VAEDecode") : graph[d].inputs.samples = Bind("12", 0)
        /\ NodesOf(graph, "VAEDecode") # {}

\* the graph built with the default step count on a renamed upload
C28_Witness ==
    /\ DualExpertBuilt
    /\ call.steps = DefaultSteps
    /\ ImageLiteral(graph) = "renamed-dog-c01-flux_dev.png"
    /\ Cardinality(DOMAIN graph) = 14

\* the bindings of a node: its inputs that name a producer
Bindings(g, n) == {g[n].inputs[k] : k \in {x \in DOMAIN g[n].inputs : g[n].inputs[x].kind = "bind"}}

\* the producers a node is bound to that are nodes of the graph
Producers(g, n) == {b.node : b \in Bindings(g, n)} \cap DOMAIN g

RECURSIVE Upstream(_, _, _)
\* the nodes reached from the set S along bindings in at most k steps
Upstream(g, S, k) ==
    IF k = 0 THEN S
    ELSE Upstream(g, S \cup UNION {Producers(g, n) : n \in S}, k - 1)

\* the nodes a node depends on, through one binding or more
Ancestors(g, n) == Upstream(g, Producers(g, n), Cardinality(DOMAIN g))

\* the terminal nodes: those that save
SaveNodes(g) == NodesOf(g, "SaveImage") \cup NodesOf(g, "SaveAnimatedWEBP")

\* C29: the graph of every builder is acyclic, every binding names a node of the
\* graph, and every node is reached backwards from the single save node.
C29_GraphStructure ==
    graph # NoGraph =>
        /\ \A n \in DOMAIN graph : n \notin Ancestors(graph, n)
        /\ \A n \in DOMAIN graph : \A b \in Bindings(graph, n) : b.node \in DOMAIN graph
        /\ Cardinality(SaveNodes(graph)) = 1
        /\ \A s \in SaveNodes(graph) : {s} \cup Ancestors(graph, s) = DOMAIN graph

\* a graph of workflow_flux_schnell
C29_Witness ==
    /\ graph # NoGraph
    /\ call.builder = "flux_schnell"
    /\ Cardinality(DOMAIN graph) = 9
    /\ SaveNodes(graph) = {"9"}

\* C30: a builder called with a width or a height that is not positive produces
\* no graph.
C30_InvalidParameters ==
    (graph # NoGraph /\ call.builder # "wan_i2v") =>
        (call.width > 0 /\ call.height > 0)

-----------------------------------------------------------------------------
(* Properties of the run, continued *)

\* the jobs of the stages the run was asked for
AskedFor ==
    (IF mode \in {"all", "images"} THEN ImageNames ELSE {})
    \cup (IF mode \in {"all", "videos"} THEN VideoNames ELSE {})

PollEnded(n) == n \in Handles /\ jstate[n] \notin {"Submitted", "Running"}

\* C33: whatever the worker does (never answers, always errors, never completes,
\* answers malformed data), poll_completion ends in exactly one of Completed,
\* Failed and TimedOut.
C33_PollerOutcome ==
    \A n \in JobNames : PollEnded(n) => jstate[n] \in Terminal

\* C34: an entry that reports both completed = true and status_str = "error" makes
\* the poller return Completed with the output manifest and raise nothing; a job
\* becomes Failed only by an entry with status_str = "error" that is not completed.
C34_CompletedPrecedence ==
    [][/\ Polled({"both"}) =>
              /\ jstate'[answer'.job] = "Completed"
              /\ Len(manifest') = answer'.listed
              /\ caught' = NoException
              /\ failed' = failed
              /\ report'[answer'.job] # "FAIL"
       /\ \A n \in JobNames :
              (jstate[n] # "Failed" /\ jstate'[n] = "Failed") =>
                  (answer'.job = n /\ answer'.resp = "error")]_vars

\* an entry with both flags, listing two outputs, has been returned
C34_Witness ==
    /\ Answered("both")
    /\ answer.listed = 2
    /\ pc = "download"
    /\ Len(manifest) = 2
    /\ jstate[answer.job] = "Completed"

\* the servers the requests of the given kinds for a job went to
ServersOf(n, reqs) == {r.server : r \in {q \in net : q.job = n /\ q.req \in reqs}}

\* C35: the worker polled for a job's history and the worker its files are
\* fetched from is the worker that accepted its submission, for a video job also
\* the one its source image was uploaded to.
C35_WorkerBinding ==
    \A n \in JobNames :
        /\ ServersOf(n, {"history", "view"}) \subseteq ServersOf(n, {"prompt"})
        /\ n \in VideoNames =>
               ServersOf(n, {"prompt"}) \subseteq ServersOf(n, {"upload"})
        /\ Cardinality(ServersOf(n, {"upload", "prompt", "history", "view"})) <= 1
        /\ \A i \in DOMAIN submitted :
               submitted[i].job = n =>
                   ServersOf(n, {"upload", "prompt", "history", "view"}) = {submitted[i].server}

\* with both servers online, the job routed to the second one was submitted to
\* it and a file of it fetched from it
C35_Witness ==
    /\ Len(servers) = 2
    /\ \E n \in ImageNames :
          /\ ServersOf(n, {"view"}) = {servers[2]}
          /\ ServersOf(n, {"prompt"}) = {servers[2]}

\* the poll loop of a stage has gone through all of submitted
StageCounted == pc = "poll" /\ idx > Len(submitted)

\* C36: at the end of a stage completed + failed equals the number of submitted
\* jobs, whatever the manifests list and however the retrievals end.
C36_StageAccounting ==
    StageCounted => completed + failed = Len(submitted)

\* the files in fs that a job's outputs are saved as
JobFiles(fs, n) == fs \cap {FileName(n, x) : x \in SavedExts}

\* C37: when a completed job's manifest lists several outputs, each is saved to
\* a path of its own: after a retrieval without failure the job has at least as
\* many local files as outputs were listed.
C37_NoOverwrite ==
    [][(EndsRetrieval /\ failed' = failed) =>
           Cardinality(JobFiles(files', submitted[idx].job)) >= answer.listed]_vars

\* C38: a dry run completes its listing for every set of online workers, the
\* empty one included.
C38_DryRunAnyAvailability ==
    dry_run => (pc # "crashed" /\ genExc # "IndexError")


-----------------------------------------------------------------------------
(* Properties of model_sync.py sync *)

\* the step starts a download
StartsDownload == downloads' # downloads

\* the category whose subdirectory is subdir
CategoryOf(subdir) == CHOOSE c \in DOMAIN CATEGORY_DIRS : CATEGORY_DIRS[c] = subdir

\* the download is of a manifest model of a known category whose name is not in
\* the installed set collected for the host being synced
MissingManifestModel(d) ==
    /\ d.host = SSH_HOSTS[hidx]
    /\ File(d.subdir, d.name) \in ManifestFiles
    /\ d.name \notin installed[CategoryOf(d.subdir)]

\* the answer is one letter y in either case, with nothing but blanks around it
IsYes(a) ==
    \E i \in DOMAIN a :
        /\ a[i] \in {"y", "Y"}
        /\ \A j \in DOMAIN a \ {i} : IsSpace(a[j])

\* the step reads an answer that is no consent
Declines == spc = "confirm" /\ spc' # "confirm" /\ ~IsYes(confirm')

\* C32 as stated: a download starts only for a missing manifest model of a known
\* category and only after the operator answered exactly y for the host.
C32_ExactAnswer ==
    [][StartsDownload =>
        /\ \A d \in downloads' \ downloads : MissingManifestModel(d)
        /\ confirm = <<"y">>]_vars

\* C32: a download starts only for a manifest model of a known category whose
\* name is not in the installed set of the host being synced, and only after the
\* operator's answer for that host was y once blanks around it are dropped and
\* case is ignored; any other answer starts no download, changes nothing on any
\* host and moves the loop to the next host.
C32_ConsentedMissingOnly ==
    [][/\ StartsDownload =>
            /\ \A d \in downloads' \ downloads : MissingManifestModel(d)
            /\ IsYes(confirm)
       /\ Declines =>
            /\ downloads' = downloads
            /\ onhosts' = onhosts
            /\ spc' = "loop"
            /\ hidx' = hidx + 1]_vars

\* a download is under way for a host whose operator typed something other than
\* the bare letter y, and for the first host the operator declined
C32_Witness ==
    /\ spc = "download"
    /\ hidx = 2
    /\ downloads # {}
    /\ \A d \in downloads : d.host = SSH_HOSTS[2]
    /\ confirm \notin {NoConfirm, <<"y">>}

\* C39: whenever cmd_sync has built the download list of a host, no entry of the
\* list is a model file the host already holds.
C39_NoRedownload ==
    spc = "confirm" =>
        \A k \in DOMAIN to_download :
            File(to_download[k].subdir, to_download[k].name) \notin onhosts[SSH_HOSTS[hidx]]
====
